---------------------------- MODULE Spec2Model ----------------------------
(***************************************************************************)
(* quickcanvas: the command history (lib/history/commandManager.ts), the   *)
(* scene it replays onto, the store operations that record commands        *)
(* (store/mainStore.ts), the canvas hook's handlers (hooks/useFabricCanvas)*)
(* the clipboard writer and reader (lib/fabric/clipboard.ts), the paste    *)
(* paths of the hook, the store's gallery and reorder operations, the      *)
(* unified fill (lib/fabric/selection.ts) and the layer buttons' flags.    *)
(***************************************************************************)
EXTENDS Integers, Sequences, FiniteSets, TLC

(* ------------------------------ bounds --------------------------------- *)
\* object handles the scene may allocate (live objects and rehydrated ones)
MaxObj == 2
\* commands recorded in one run
MaxCmds == 3
\* largest x coordinate an object is dragged to
MaxLeft == 1
\* rehydrations that may be in flight together
MaxPending == 1
\* gestures the observer keeps when it is switched on
MaxLog == 3
\* commands recorded in one observed run
MaxLogCmds == 2
\* commands recorded on top of a history that starts one short of maxDepth
MaxDepthCmds == 3
\* documents ever created
MaxDocs == 3
\* commands recorded in a run over several documents
MaxDocCmds == 1
\* undone commands above which a new command is still recorded in the deep run
MaxRedo == 1
\* gallery operations in one run over the gallery
MaxGalleryCalls == 3
\* addToGallery calls that may be at an await at once
MaxOverlap == 2
\* paste gestures (Ctrl+V shortcuts and native paste events of their own) in one run
MaxPastes == 2
\* objects of the scene whose fills are read
MaxFillObjs == 3
\* objects of the scene that is restacked
MaxLayerObjs == 4
\* reorders recorded in one run of restacking
MaxLayerCmds == 1
\* objects of the scene that removals are undone in
MaxRemoveObjs == 3
\* object handles, and commands recorded, in the run that undoes a Reorder
MaxOrderObjs == 3
MaxOrderCmds == 3
\* rehydrations in flight together, and object handles, in the run that rehydrates two
MaxInFlight == 2
MaxRehydrateObjs == 4
\* commands performed in the run of the history with a caller's commands
MaxHistoryCmds == 3

(* -------------------------- program constants -------------------------- *)
maxDepth == 250
\* the gallery's cap: .slice(0, 200)
galleryCap == 200

NoId == 0
NoObj == 0
\* fill: null, and the null extractUnifiedFill returns
NoFill == "null"
Fills == {"red", "blue"}
Radii == {0, 4}
Kinds == {"rect", "ellipse"}
Lefts == 0..MaxLeft

VARIABLES
    canvas,      \* [objects: stacking order of object handles, active: the active selection]
    heap,        \* heap[o]: the live object behind handle o
    pending,     \* rehydrations (enlivenState) started and not yet settled
    undoStack,   \* HistoryManager.undoStack, bottom first
    redoStack,   \* HistoryManager.redoStack, bottom first
    hm,          \* the undo()/redo() call suspended at its await, or idle
    nextCmdId,   \* commands built so far + 1
    budget,      \* commands that may still be recorded in this run
    lastOp,      \* the last HistoryManager operation that returned
    evicted,     \* ids of the commands shifted out of undoStack
    log,         \* observer: the last gestures, each with the scene it started from
    window,      \* observer: how many gestures log keeps (0: none)
    doc,         \* the store's document state and the document database
    copy,        \* the copyToSystemClipboard call in progress, with what its environment will do
    clip,        \* the hook's clipboard refs, the paste() call in progress and the statuses notified
    gallery,     \* the store's gallery with its checksum index
    selection    \* the store's selection.fill, in the runs that follow it (else never set)

vars == <<canvas, heap, pending, undoStack, redoStack, hm, nextCmdId, budget, lastOp, evicted,
          log, window, doc, copy, clip, gallery, selection>>

(* ------------------------------ sequences ------------------------------ *)
Range(s) == {s[i] : i \in DOMAIN s}

Contains(s, x) == \E i \in DOMAIN s : s[i] = x

RECURSIVE Without(_, _)
\* s with every occurrence of x dropped (canvas.remove)
Without(s, x) ==
    IF s = <<>> THEN <<>>
    ELSE IF Head(s) = x THEN Without(Tail(s), x)
    ELSE <<Head(s)>> \o Without(Tail(s), x)

RECURSIVE Filter(_, _)
\* the members of s that are in the set keep, in s's order
Filter(s, keep) ==
    IF s = <<>> THEN <<>>
    ELSE IF Head(s) \in keep THEN <<Head(s)>> \o Filter(Tail(s), keep)
    ELSE Filter(Tail(s), keep)

Last(s) == s[Len(s)]

Front(s) == SubSeq(s, 1, Len(s) - 1)

(* ------------------------- object identity ----------------------------- *)
\* an ensureObjectId that hands the same id to whatever it is given
sharedObjectId(hp, o) == [hp EXCEPT ![o].qcId = 1]

\* ensureObjectId: keeps an attached id, else attaches a fresh one: crypto.randomUUID(), or
\* two Math.random() strings, taken never to repeat (here the handle's own number)
ensureObjectId(hp, o) ==
    IF hp[o].qcId = NoId THEN [hp EXCEPT ![o].qcId = o] ELSE hp

RECURSIVE ensureAll(_, _)
ensureAll(hp, objs) ==
    IF objs = <<>> THEN hp ELSE ensureAll(ensureObjectId(hp, Head(objs)), Tail(objs))

\* obj.toObject(): the structural bag of a live object
toObject(h) == [type |-> h.type, left |-> h.left, fill |-> h.fill, rx |-> h.rx]

\* the live object enlivenObjects builds from a bag
fromObject(json) ==
    [qcId |-> NoId, type |-> json.type, left |-> json.left, fill |-> json.fill, rx |-> json.rx,
     qcBefore |-> <<>>]

serializeObject(hp, o) == [qcId |-> hp[o].qcId, json |-> toObject(hp[o])]

serializeObjects(hp, objs) == [i \in DOMAIN objs |-> serializeObject(hp, objs[i])]

\* snapshotObjects: ensures the ids, then serializes
snapshotObjects(hp, objs) == serializeObjects(ensureAll(hp, objs), objs)

\* findObjectById: the first canvas object carrying the id, NoObj when there is none
findObjectById(cv, hp, id) ==
    IF \E i \in DOMAIN cv.objects : hp[cv.objects[i]].qcId = id
    THEN cv.objects[CHOOSE i \in DOMAIN cv.objects :
            /\ hp[cv.objects[i]].qcId = id
            /\ \A j \in 1..(i - 1) : hp[cv.objects[j]].qcId # id]
    ELSE NoObj

\* what a user can observe of the scene: ids and recorded properties, bottom to top
sceneOf(cv, hp) == serializeObjects(hp, cv.objects)

(* ------------------------------ canvas --------------------------------- *)
canvasAdd(cv, o) == [cv EXCEPT !.objects = Append(@, o)]

canvasRemove(cv, o) == [cv EXCEPT !.objects = Without(@, o), !.active = @ \ {o}]

discardActiveObject(cv) == [cv EXCEPT !.active = {}]

RECURSIVE addIfAbsent(_, _)
\* arr.forEach(o => { if (!canvas.getObjects().includes(o)) canvas.add(o); })
addIfAbsent(cv, arr) ==
    IF arr = <<>> THEN cv
    ELSE addIfAbsent(IF Contains(cv.objects, Head(arr)) THEN cv ELSE canvasAdd(cv, Head(arr)),
                     Tail(arr))

RECURSIVE removeAll(_, _)
\* arr.forEach(o => canvas.remove(o))
removeAll(cv, arr) ==
    IF arr = <<>> THEN cv ELSE removeAll(canvasRemove(cv, Head(arr)), Tail(arr))

RECURSIVE removeById(_, _, _)
\* arr.forEach(o => { const existing = findObjectById(canvas, o.qcId); if (existing) canvas.remove(existing); })
removeById(cv, hp, arr) ==
    IF arr = <<>> THEN cv
    ELSE LET existing == findObjectById(cv, hp, hp[Head(arr)].qcId)
         IN  removeById(IF existing # NoObj THEN canvasRemove(cv, existing) ELSE cv, hp, Tail(arr))

\* the active selection's members in stacking order (forEachObject)
activeMembers(cv) == Filter(cv.objects, cv.active)

\* the bags of the active object: those of the members of a multi-selection, or of the
\* one object (what a clone or a serialization of it carries)
activeBags(cv, hp) == [i \in DOMAIN activeMembers(cv) |-> toObject(hp[activeMembers(cv)[i]])]


(* ------------------------------ commands ------------------------------- *)
\* a Command; the fields a builder does not use are empty
Cmd(id, kind, label, arr, states, before, after, beforeOrder, afterOrder) ==
    [id |-> id, kind |-> kind, label |-> label, arr |-> arr, states |-> states,
     before |-> before, after |-> after, beforeOrder |-> beforeOrder, afterOrder |-> afterOrder]

(* ------------------------- command builders ---------------------------- *)
\* recordAddObjects(canvas, objects, label): alreadyAdded defaults to true
recordAddObjects(id, hp, objs, label) ==
    Cmd(id, "Add", label, objs, serializeObjects(hp, objs), <<>>, <<>>, <<>>, <<>>)

\* recordRemoveObjects(canvas, objects, label): alreadyRemoved defaults to true,
\* so the builder itself removes nothing
recordRemoveObjects(id, hp, objs, label) ==
    Cmd(id, "Remove", label, objs, serializeObjects(hp, objs), <<>>, <<>>, <<>>, <<>>)

recordModify(id, before, after, label) ==
    Cmd(id, "Modify", label, <<>>, <<>>, before, after, <<>>, <<>>)

recordReorder(id, beforeOrder, afterOrder, label) ==
    Cmd(id, "Reorder", label, <<>>, <<>>, <<>>, <<>>, beforeOrder, afterOrder)

recordPropertyMutation(id, before, after, label) ==
    Cmd(id, "Prop", label, <<>>, <<>>, before, after, <<>>, <<>>)

(* --------------------- snapshot application ---------------------------- *)
\* the live object h with every key of the bag but type/version/qcId assigned
assignJson(h, json) == [h EXCEPT !.left = json.left, !.fill = json.fill, !.rx = json.rx]

\* applyStateToExisting: FALSE when no canvas object carries the id
canApplyState(cv, hp, st) == findObjectById(cv, hp, st.qcId) # NoObj

applyStateToExisting(cv, hp, st) ==
    LET target == findObjectById(cv, hp, st.qcId)
    IN  IF target = NoObj THEN hp ELSE [hp EXCEPT ![target] = assignJson(@, st.json)]

RECURSIVE applyStates(_, _, _)
\* states.forEach(st => { if (!applyStateToExisting(canvas, st)) enlivenState(canvas, st); })
\* gives the heap and the states whose rehydration was started (and not awaited)
applyStates(cv, hp, sts) ==
    IF sts = <<>> THEN [hp |-> hp, started |-> <<>>]
    ELSE LET st   == Head(sts)
             ok   == canApplyState(cv, hp, st)
             rest == applyStates(cv, applyStateToExisting(cv, hp, st), Tail(sts))
         IN  [hp |-> rest.hp,
              started |-> IF ok THEN rest.started ELSE <<st>> \o rest.started]

RECURSIVE missingStates(_, _, _)
\* states.filter(st => !findObjectById(canvas, st.qcId))
missingStates(cv, hp, sts) ==
    IF sts = <<>> THEN <<>>
    ELSE IF canApplyState(cv, hp, Head(sts)) THEN missingStates(cv, hp, Tail(sts))
    ELSE <<Head(sts)>> \o missingStates(cv, hp, Tail(sts))

\* obj.set({...st.props}): only the listed keys change
setProps(h, props) == [k \in DOMAIN h |-> IF k \in DOMAIN props THEN props[k] ELSE h[k]]

\* the hook's 'object:modified' handler: a target still carrying the snapshot of a
\* mouse:down records a 'Transform' from it and drops the snapshot
objectModified(hp, target, id) ==
    IF hp[target].qcBefore = <<>> THEN [hp |-> hp, performed |-> <<>>]
    ELSE LET hp1 == ensureObjectId(hp, target)
         IN  [hp |-> [hp1 EXCEPT ![target].qcBefore = <<>>],
              performed |-> <<recordModify(id, hp[target].qcBefore,
                                           serializeObjects(hp1, <<target>>), "Transform")>>]

RECURSIVE applyProps(_, _, _, _)
\* recordPropertyMutation.apply: objects that are not on the canvas are skipped, the
\* others get the props and fire 'object:modified'; id is the next free command id
applyProps(cv, hp, sts, id) ==
    IF sts = <<>> THEN [hp |-> hp, performed |-> <<>>]
    ELSE LET obj == findObjectById(cv, hp, Head(sts).qcId)
         IN  IF obj = NoObj THEN applyProps(cv, hp, Tail(sts), id)
             ELSE LET fired == objectModified([hp EXCEPT ![obj] = setProps(@, Head(sts).props)], obj, id)
                      rest  == applyProps(cv, fired.hp, Tail(sts), id + Len(fired.performed))
                  IN  [hp |-> rest.hp, performed |-> fired.performed \o rest.performed]

\* new Map(existing.map(o => [o.qcId, o])).get(id): the last object carrying the id
mapGet(objs, hp, id) ==
    IF \E i \in DOMAIN objs : hp[objs[i]].qcId = id
    THEN objs[CHOOSE i \in DOMAIN objs :
            /\ hp[objs[i]].qcId = id
            /\ \A j \in (i + 1)..Len(objs) : hp[objs[j]].qcId # id]
    ELSE NoObj

RECURSIVE orderedByIds(_, _, _)
\* order.forEach(id => { const obj = map.get(id); if (obj) ordered.push(obj); })
orderedByIds(objs, hp, order) ==
    IF order = <<>> THEN <<>>
    ELSE LET obj == mapGet(objs, hp, Head(order))
         IN  (IF obj = NoObj THEN <<>> ELSE <<obj>>) \o orderedByIds(objs, hp, Tail(order))

RECURSIVE strays(_, _, _)
\* existing.forEach(o => { if (!order.includes(o.qcId)) ordered.push(o); })
strays(objs, hp, order) ==
    IF objs = <<>> THEN <<>>
    ELSE (IF Contains(order, hp[Head(objs)].qcId) THEN <<>> ELSE <<Head(objs)>>)
         \o strays(Tail(objs), hp, order)

\* recordReorder.applyOrder: every object is removed and the ordered list added back
applyOrder(cv, hp, order) ==
    LET hp1 == ensureAll(hp, cv.objects)
    IN  [cv |-> [objects |-> orderedByIds(cv.objects, hp1, order) \o strays(cv.objects, hp1, order),
                 active  |-> {}],
         hp |-> hp1]

(* --------------------------- command bodies ---------------------------- *)
\* what a command body leaves: the canvas, the heap, the rehydrations it started,
\* whether the promise it returns waits for them, and the commands recorded meanwhile
Body(cv, hp, started, awaited, performed) ==
    [cv |-> cv, hp |-> hp, started |-> started, awaited |-> awaited, performed |-> performed]

addPresent(cmd, cv, hp) ==
    LET cv1 == addIfAbsent(cv, cmd.arr)
        missing == missingStates(cv1, hp, cmd.states)
    IN  Body(cv1, hp, missing, missing # <<>>, <<>>)

\* cmd.execute() of each builder
executeBody(cmd, cv, hp, id) ==
    CASE cmd.kind = "Add" -> addPresent(cmd, cv, hp)
      [] cmd.kind = "Remove" -> Body(discardActiveObject(removeById(cv, hp, cmd.arr)), hp, <<>>, FALSE, <<>>)
      [] cmd.kind = "Modify" ->
            LET r == applyStates(cv, hp, cmd.after) IN Body(cv, r.hp, r.started, FALSE, <<>>)
      [] cmd.kind = "Reorder" ->
            LET r == applyOrder(cv, hp, cmd.afterOrder) IN Body(r.cv, r.hp, <<>>, FALSE, <<>>)
      [] cmd.kind = "Prop" ->
            LET r == applyProps(cv, hp, cmd.after, id) IN Body(cv, r.hp, <<>>, FALSE, r.performed)

\* cmd.undo() of each builder
undoBody(cmd, cv, hp, id) ==
    CASE cmd.kind = "Add" -> Body(discardActiveObject(removeAll(cv, cmd.arr)), hp, <<>>, FALSE, <<>>)
      [] cmd.kind = "Remove" -> addPresent(cmd, cv, hp)
      [] cmd.kind = "Modify" ->
            LET r == applyStates(cv, hp, cmd.before) IN Body(cv, r.hp, r.started, FALSE, <<>>)
      [] cmd.kind = "Reorder" ->
            LET r == applyOrder(cv, hp, cmd.beforeOrder) IN Body(r.cv, r.hp, <<>>, FALSE, <<>>)
      [] cmd.kind = "Prop" ->
            LET r == applyProps(cv, hp, cmd.before, id) IN Body(cv, r.hp, <<>>, FALSE, r.performed)

(* --------------------------- HistoryManager ---------------------------- *)
\* a push that never evicts
pushUncapped(us, cmd) == Append(us, cmd)

\* this.undoStack.push(cmd); if (this.undoStack.length > this.maxDepth) this.undoStack.shift();
pushCapped(us, cmd) ==
    IF Len(us) + 1 > maxDepth THEN Tail(Append(us, cmd)) ELSE Append(us, cmd)

\* the ids shift() drops when cmd is pushed
shifted(us, cmd) ==
    IF Len(us) + 1 > maxDepth THEN {Head(Append(us, cmd)).id} ELSE {}

\* a perform that would leave the redo stack as it found it
keepRedo(rs) == rs

\* this.redoStack = [] at the end of perform
redoAfterPerform(rs) == <<>>

\* no call of undo() or redo() is at its await: the command slot holds no command
Idle == [op |-> "idle", cmd |-> Cmd(0, "none", "", <<>>, <<>>, <<>>, <<>>, <<>>, <<>>)]

RECURSIVE performAll(_, _, _, _)
\* the stacks after perform(cmd, true) of each of cmds in turn
performAll(us, rs, ev, cmds) ==
    IF cmds = <<>> THEN [us |-> us, rs |-> rs, ev |-> ev]
    ELSE performAll(pushCapped(us, Head(cmds)), redoAfterPerform(rs),
                    ev \cup shifted(us, Head(cmds)), Tail(cmds))

\* perform(cmd, alreadyExecuted = true): every caller passes (or defaults to) true,
\* so no execute() runs and no await is reached
perform(cmd) ==
    /\ undoStack' = pushCapped(undoStack, cmd)
    /\ evicted' = evicted \cup shifted(undoStack, cmd)
    /\ redoStack' = redoAfterPerform(redoStack)
    /\ nextCmdId' = nextCmdId + 1
    /\ budget' = budget - 1
    /\ lastOp' = "perform"

noPerform == UNCHANGED <<undoStack, redoStack, evicted, nextCmdId, budget, lastOp>>

\* rehydrations started by command id's body join the ones in flight
startPending(id, op, body) ==
    pending \o [i \in DOMAIN body.started |->
                    [cmd |-> id, op |-> op, st |-> body.started[i], awaited |-> body.awaited]]


\* a recordPropertyMutation that skips its equality check
alwaysChanged(before, after) == TRUE

\* the quick equality check of recordPropertyMutation
propsChanged(before, after) ==
    \E i \in DOMAIN after :
        \/ ~ \E j \in DOMAIN before : before[j].qcId = after[i].qcId
        \/ LET b == before[CHOOSE j \in DOMAIN before :
                        /\ before[j].qcId = after[i].qcId
                        /\ \A k \in 1..(j - 1) : before[k].qcId # after[i].qcId]
           IN  \E key \in DOMAIN after[i].props :
                    key \notin DOMAIN b.props \/ after[i].props[key] # b.props[key]

(* ------------------------------ observer ------------------------------- *)
lastN(s, n) == IF Len(s) <= n THEN s ELSE SubSeq(s, Len(s) - n + 1, Len(s))

\* the gesture op begins now; cmd is the id of the command an undo/redo takes (0: none)
observe(op, cmd) ==
    /\ log' = lastN(Append(log, [op |-> op, cmd |-> cmd, scene |-> sceneOf(canvas, heap),
                                 sel |-> canvas.active, next |-> nextCmdId]), window)
    /\ UNCHANGED window

unobserved == UNCHANGED <<log, window>>

\* the editor's handlers touch neither the documents nor a clipboard write
elsewhere == UNCHANGED <<doc, copy, clip, gallery, selection>>

(* ------------------------------ handlers ------------------------------- *)
\* a handler runs when no continuation of undo()/redo() is queued as a microtask
HandlerTurn == hm.op = "idle"

\* default style of insertShape (the ellipse's own radii are not tracked)
newShape(kind, l) ==
    [qcId |-> NoId, type |-> kind, left |-> l, fill |-> "blue", rx |-> IF kind = "rect" THEN 4 ELSE 0,
     qcBefore |-> <<>>]

\* mouse:up -> finalizeCreation: the shape is added, selected and recorded
CreateShape(kind, l) ==
    /\ HandlerTurn
    /\ budget > 0
    /\ Len(heap) < MaxObj
    /\ LET o   == Len(heap) + 1
           hp1 == ensureObjectId(Append(heap, newShape(kind, l)), o)
       IN  /\ heap' = hp1
           /\ canvas' = [objects |-> Append(canvas.objects, o), active |-> {o}]
           /\ perform(recordAddObjects(nextCmdId, hp1, <<o>>, "Add shape"))
    /\ UNCHANGED <<pending, hm>>
    /\ observe("create", 0)
    /\ elsewhere

\* canvas.setActiveObject / discardActiveObject by pointer
SelectObjects(S) ==
    /\ HandlerTurn
    /\ S \subseteq Range(canvas.objects)
    /\ S # canvas.active
    /\ canvas' = [canvas EXCEPT !.active = S]
    /\ noPerform
    /\ UNCHANGED <<heap, pending, hm>>
    /\ observe("select", 0)
    /\ elsewhere

RECURSIVE moveAll(_, _, _)
moveAll(hp, objs, l) ==
    IF objs = <<>> THEN hp ELSE moveAll([hp EXCEPT ![Head(objs)].left = l], Tail(objs), l)

\* delete target.__qcBefore: a lone object is its own target, the members of a
\* multi-selection are not (the snapshot sits on the selection)
dropSnapshot(hp, active) ==
    [o \in DOMAIN hp |-> IF active = {o} THEN [hp[o] EXCEPT !.qcBefore = <<>>] ELSE hp[o]]

\* mouse:down snapshots the target, the drag moves it, object:modified records the pair
Transform(l) ==
    /\ HandlerTurn
    /\ budget > 0
    /\ canvas.active # {}
    /\ \E o \in canvas.active : heap[o].left # l
    /\ LET objs   == activeMembers(canvas)
           hp1    == ensureAll(heap, objs)
           before == serializeObjects(hp1, objs)
           hp2    == moveAll(hp1, objs, l)
           after  == serializeObjects(hp2, objs)
       IN  /\ heap' = dropSnapshot(hp2, canvas.active)
           /\ perform(recordModify(nextCmdId, before, after, "Transform"))
    /\ UNCHANGED <<canvas, pending, hm>>
    /\ observe("transform", 0)
    /\ elsewhere

\* supportsFill: not an image (a member of a selection is never a selection or a group here)
supportsFill(h) == h.type # "image"

RECURSIVE fillAll(_, _, _)
\* applyFillToObjectOrSelection: the fill is assigned to every member that supports it
fillAll(hp, objs, c) ==
    IF objs = <<>> THEN hp
    ELSE fillAll(IF supportsFill(hp[Head(objs)]) THEN [hp EXCEPT ![Head(objs)].fill = c] ELSE hp,
                 Tail(objs), c)

RECURSIVE unify(_, _, _, _)
\* the forEachObject of extractUnifiedFill: members that do not support fill, and members
\* whose fill is null, are passed over
unify(hp, objs, unified, mixed) ==
    IF objs = <<>> THEN IF mixed THEN NoFill ELSE unified
    ELSE LET h == hp[Head(objs)]
         IN  IF ~supportsFill(h) \/ h.fill = NoFill THEN unify(hp, Tail(objs), unified, mixed)
             ELSE IF unified = NoFill THEN unify(hp, Tail(objs), h.fill, mixed)
             ELSE unify(hp, Tail(objs), unified, mixed \/ unified # h.fill)

\* extractUnifiedFill(target), target being an active selection of several objects or
\* the one active object
extractUnifiedFill(hp, objs) ==
    IF Len(objs) > 1 THEN unify(hp, objs, NoFill, FALSE)
    ELSE IF supportsFill(hp[objs[1]]) THEN hp[objs[1]].fill ELSE NoFill

\* the fill setSelectionFromCanvas puts in the store
setSelectionFromCanvas(cv, hp) ==
    [fill |-> IF cv.active = {} THEN NoFill ELSE extractUnifiedFill(hp, activeMembers(cv))]

\* applyFillToSelection: the fill is assigned, selection.fill is set to it and nothing
\* is recorded
ApplyFill(c) ==
    /\ HandlerTurn
    /\ canvas.active # {}
    /\ heap' = fillAll(heap, activeMembers(canvas), c)
    /\ selection' = [selection EXCEPT !.fill = c]
    /\ noPerform
    /\ UNCHANGED <<canvas, pending, hm>>
    /\ observe("fill", 0)
    /\ UNCHANGED <<doc, copy, clip, gallery>>

RECURSIVE radiusStates(_, _, _, _)
\* the before (which = "before") or after entries of the rects whose radius changes
radiusStates(hp, rects, r, which) ==
    IF rects = <<>> THEN <<>>
    ELSE (IF hp[Head(rects)].rx # r
          THEN <<[qcId |-> hp[Head(rects)].qcId,
                  props |-> [rx |-> IF which = "before" THEN hp[Head(rects)].rx ELSE r]]>>
          ELSE <<>>)
         \o radiusStates(hp, Tail(rects), r, which)

RECURSIVE radiusAll(_, _, _)
radiusAll(hp, rects, r) ==
    IF rects = <<>> THEN hp ELSE radiusAll([hp EXCEPT ![Head(rects)].rx = r], Tail(rects), r)

rectsOf(hp, objs) == Filter(objs, {o \in Range(objs) : hp[o].type = "rect"})

\* applyRectCornerRadiusToSelection: the rects of the selection get the radius
CornerRadius(r) ==
    /\ HandlerTurn
    /\ budget > 0
    /\ canvas.active # {}
    /\ LET rects  == rectsOf(heap, activeMembers(canvas))
           hp1    == ensureAll(heap, rects)
           before == radiusStates(hp1, rects, r, "before")
           after  == radiusStates(hp1, rects, r, "after")
       IN  /\ after # <<>>
           /\ propsChanged(before, after)
           /\ heap' = radiusAll(hp1, rects, r)
           /\ perform(recordPropertyMutation(nextCmdId, before, after, "Corner Radius"))
    /\ UNCHANGED <<canvas, pending, hm>>
    /\ observe("radius", 0)
    /\ elsewhere

\* store deleteSelection (Delete/Backspace keyup, panel delete): removes, records nothing
DeleteSelection ==
    /\ HandlerTurn
    /\ canvas.active # {}
    /\ canvas' = discardActiveObject(removeAll(canvas, activeMembers(canvas)))
    /\ noPerform
    /\ UNCHANGED <<heap, pending, hm>>
    /\ observe("delete", 0)
    /\ elsewhere

\* cut(): the clone goes to clipboardRef and, after the copy,
\* recordRemoveObjects(canvas, objects, 'Cut') is called and nothing else
Cut ==
    /\ HandlerTurn
    /\ budget > 0
    /\ canvas.active # {}
    /\ LET objs == activeMembers(canvas)
           hp1  == ensureAll(heap, objs)
       IN  /\ heap' = hp1
           /\ perform(recordRemoveObjects(nextCmdId, hp1, objs, "Cut"))
    /\ clip' = [clip EXCEPT !.entry = activeBags(canvas, heap)]
    /\ UNCHANGED <<canvas, pending, hm>>
    /\ observe("cut", 0)
    /\ UNCHANGED <<doc, copy, gallery, selection>>


\* mouse:down on an object without a drag: the snapshot stays on the target
ClickObject(o) ==
    /\ HandlerTurn
    /\ Contains(canvas.objects, o)
    /\ ~ (o \in canvas.active /\ Cardinality(canvas.active) > 1)
    /\ LET hp1 == ensureObjectId(heap, o)
           hp2 == [hp1 EXCEPT ![o].qcBefore = serializeObjects(hp1, <<o>>)]
       IN  /\ (hp2 # heap \/ canvas.active # {o})
           /\ heap' = hp2
    /\ canvas' = [canvas EXCEPT !.active = {o}]
    /\ noPerform
    /\ UNCHANGED <<pending, hm>>
    /\ observe("click", 0)
    /\ elsewhere

(* ----------------------------- stacking -------------------------------- *)
IndexOf(s, x) == CHOOSE i \in DOMAIN s : s[i] = x

swap(s, i, j) == [s EXCEPT ![i] = s[j], ![j] = s[i]]

\* fabric: one step up unless already on top
bringObjectForward(objs, o) ==
    IF IndexOf(objs, o) = Len(objs) THEN objs ELSE swap(objs, IndexOf(objs, o), IndexOf(objs, o) + 1)

\* fabric: one step down unless already at the bottom
sendObjectBackwards(objs, o) ==
    IF IndexOf(objs, o) = 1 THEN objs ELSE swap(objs, IndexOf(objs, o), IndexOf(objs, o) - 1)

bringObjectToFront(objs, o) == Append(Without(objs, o), o)

sendObjectToBack(objs, o) == <<o>> \o Without(objs, o)

Reverse(s) == [i \in DOMAIN s |-> s[Len(s) + 1 - i]]

RECURSIVE moveEach(_, _, _)
\* ordered.forEach(o => canvas.<op>(o))
moveEach(objs, ordered, op) ==
    IF ordered = <<>> THEN objs
    ELSE moveEach(CASE op = "forward"  -> bringObjectForward(objs, Head(ordered))
                    [] op = "backward" -> sendObjectBackwards(objs, Head(ordered))
                    [] op = "front"    -> bringObjectToFront(objs, Head(ordered))
                    [] op = "back"     -> sendObjectToBack(objs, Head(ordered)),
                  Tail(ordered), op)

idsOf(hp, objs) == [i \in DOMAIN objs |-> hp[objs[i]].qcId]

\* the common shape of the four store operations: ids ensured, the selection moved in
\* the given processing order, the before/after id lists handed to recordReorder,
\* which records nothing when they are equal
\* a recordReorder that compares nothing
orderNeverSame(before, after) == FALSE

\* recordReorder's test: beforeOrder.join(',') === afterOrder.join(',') (ids hold no comma)
sameOrder(before, after) == before = after

reorder(ordered, op, label) ==
    /\ HandlerTurn
    /\ canvas.active # {}
    /\ LET hp1    == ensureAll(heap, canvas.objects)
           before == idsOf(hp1, canvas.objects)
           moved  == moveEach(canvas.objects, ordered, op)
           after  == idsOf(hp1, moved)
       IN  /\ heap' = hp1
           /\ canvas' = [canvas EXCEPT !.objects = moved]
           /\ IF sameOrder(before, after) THEN noPerform
              ELSE budget > 0 /\ perform(recordReorder(nextCmdId, before, after, label))
    /\ UNCHANGED <<pending, hm>>
    /\ observe(op, 0)
    /\ elsewhere

\* [...selection].sort(...): bringForward and sendToBack take the topmost member first,
\* sendBackward and bringToFront the bottommost
ordered(cv, op) ==
    IF op \in {"forward", "back"} THEN Reverse(activeMembers(cv)) ELSE activeMembers(cv)

\* the stacking order the store operation op leaves
restacked(cv, op) == moveEach(cv.objects, ordered(cv, op), op)

bringForward == reorder(ordered(canvas, "forward"), "forward", "Bring Forward")

sendBackward == reorder(ordered(canvas, "backward"), "backward", "Send Backward")

bringToFront == reorder(ordered(canvas, "front"), "front", "Bring To Front")

sendToBack == reorder(ordered(canvas, "back"), "back", "Send To Back")

\* the positions of the active objects in the stack
indices(cv) == {i \in DOMAIN cv.objects : cv.objects[i] \in cv.active}

Max(S) == CHOOSE m \in S : \A i \in S : i <= m

Min(S) == CHOOSE m \in S : \A i \in S : m <= i

AllDisabled == [bfwd |-> TRUE, fwd |-> TRUE, bwd |-> TRUE, bback |-> TRUE]

\* computeLayerDisables of the toolbar's LayerControls
computeLayerDisables(cv) ==
    LET stack == cv.objects
        n     == Len(stack)
        idx   == indices(cv)
    IN  IF n <= 1 \/ cv.active = {} \/ idx = {} THEN AllDisabled
        ELSE LET atTop    == Max(idx) = n
                 atBottom == Min(idx) = 1
             IN  [fwd   |-> atTop \/ \A i \in idx : i = n \/ stack[i + 1] \in cv.active,
                  bwd   |-> atBottom \/ \A i \in idx : i = 1 \/ stack[i - 1] \in cv.active,
                  bfwd  |-> Max(idx) = n \/ \A j \in (Max(idx) + 1)..n : stack[j] \in cv.active,
                  bback |-> Min(idx) = 1 \/ \A j \in 1..(Min(idx) - 1) : stack[j] \in cv.active]

\* computeLayerDisables of the actions panel: atTop and atBottom carry one more conjunct
panelLayerDisables(cv) ==
    LET stack == cv.objects
        n     == Len(stack)
        idx   == indices(cv)
    IN  IF n <= 1 \/ cv.active = {} \/ idx = {} THEN AllDisabled
        ELSE LET atTop    == Max(idx) = n
                             /\ (Cardinality(idx) = 1 \/ Len(SubSeq(stack, Max(idx) + 1, n)) = 0)
                 atBottom == Min(idx) = 1
                             /\ (Cardinality(idx) = 1 \/ Len(SubSeq(stack, 1, Min(idx) - 1)) = 0)
             IN  [fwd   |-> atTop \/ \A i \in idx : i = n \/ stack[i + 1] \in cv.active,
                  bwd   |-> atBottom \/ \A i \in idx : i = 1 \/ stack[i - 1] \in cv.active,
                  bfwd  |-> Max(idx) = n \/ \A j \in (Max(idx) + 1)..n : stack[j] \in cv.active,
                  bback |-> Min(idx) = 1 \/ \A j \in 1..(Min(idx) - 1) : stack[j] \in cv.active]

(* ---------------------------- undo / redo ------------------------------ *)
\* the part of undo()/redo() up to its await: the command is popped and its body run;
\* handleKeydown does not wait for the returned promise
startCallWithin(op, cmd, body, us, rs, inFlight) ==
    LET after == performAll(us, rs, evicted, body.performed)
    IN  /\ Len(body.performed) <= budget
        /\ Len(pending) + Len(body.started) <= inFlight
        /\ canvas' = body.cv
        /\ heap' = body.hp
        /\ pending' = startPending(cmd.id, op, body)
        /\ undoStack' = after.us
        /\ redoStack' = after.rs
        /\ evicted' = after.ev
        /\ nextCmdId' = nextCmdId + Len(body.performed)
        /\ budget' = budget - Len(body.performed)
        /\ lastOp' = IF body.performed = <<>> THEN lastOp ELSE "perform"
        /\ hm' = [op |-> op, cmd |-> cmd]
        /\ observe(op, cmd.id)
        /\ elsewhere

\* const cmd = this.undoStack.pop(); if (!cmd) return;
emptyCall(op) ==
    /\ lastOp' = op \o ":none"
    /\ UNCHANGED <<canvas, heap, pending, undoStack, redoStack, hm, nextCmdId, budget, evicted>>
    /\ observe(op, 0)
    /\ elsewhere

\* Ctrl+Z, with at most inFlight rehydrations running together
undoWithin(inFlight) ==
    /\ HandlerTurn
    /\ IF undoStack = <<>> THEN emptyCall("undo")
       ELSE startCallWithin("undo", Last(undoStack),
                            undoBody(Last(undoStack), canvas, heap, nextCmdId),
                            Front(undoStack), redoStack, inFlight)

undo == undoWithin(MaxPending)

\* Ctrl+Y, Ctrl+Shift+Z
redoWithin(inFlight) ==
    /\ HandlerTurn
    /\ IF redoStack = <<>> THEN emptyCall("redo")
       ELSE startCallWithin("redo", Last(redoStack),
                            executeBody(Last(redoStack), canvas, heap, nextCmdId),
                            undoStack, Front(redoStack), inFlight)

redo == redoWithin(MaxPending)

\* the continuation after the await: the command goes onto the other stack
historySettle ==
    /\ hm.op # "idle"
    /\ ~ \E i \in DOMAIN pending : pending[i].awaited /\ pending[i].cmd = hm.cmd.id
    /\ IF hm.op = "undo"
       THEN redoStack' = Append(redoStack, hm.cmd) /\ UNCHANGED undoStack
       ELSE undoStack' = Append(undoStack, hm.cmd) /\ UNCHANGED redoStack
    /\ hm' = Idle
    /\ lastOp' = hm.op
    /\ UNCHANGED <<canvas, heap, pending, nextCmdId, budget, evicted>>
    /\ unobserved
    /\ elsewhere

dropAt(s, i) == SubSeq(s, 1, i - 1) \o SubSeq(s, i + 1, Len(s))

\* a chained rehydration starts only when the ones before it have settled
mayStart(i) ==
    pending[i].awaited =>
        ~ \E j \in 1..(i - 1) : pending[j].awaited /\ pending[j].cmd = pending[i].cmd

\* enlivenState's callback with an object: it gets the id and is added on top
enlivenStateWithin(i, handles) ==
    /\ i \in DOMAIN pending
    /\ HandlerTurn \/ pending[i].awaited
    /\ mayStart(i)
    /\ Len(heap) < handles
    /\ heap' = Append(heap, [fromObject(pending[i].st.json) EXCEPT !.qcId = pending[i].st.qcId])
    /\ canvas' = canvasAdd(canvas, Len(heap) + 1)
    /\ pending' = dropAt(pending, i)
    /\ noPerform
    /\ UNCHANGED hm
    /\ unobserved
    /\ elsewhere

enlivenState(i) == enlivenStateWithin(i, MaxObj)

\* a rejection that takes the command's other rehydrations with it
allAbandoned(pend, i) == Filter(pend, {e \in Range(pend) : e.cmd # pend[i].cmd})

\* what is still in flight when rehydration i has rejected: in an awaited chain
\* (p.then(() => enlivenState(...))) the links after it never start; a rehydration
\* started on its own takes nothing with it
afterRejection(pend, i) ==
    IF pend[i].awaited
    THEN Filter(pend, {e \in Range(pend) : ~ (e.awaited /\ e.cmd = pend[i].cmd)})
    ELSE dropAt(pend, i)

\* enlivenState's promise rejects (no object, or enlivenObjects throws): nothing is
\* added; a call awaiting it ends without pushing its command
enlivenFailed(i) ==
    /\ i \in DOMAIN pending
    /\ HandlerTurn \/ pending[i].awaited
    /\ mayStart(i)
    /\ pending' = afterRejection(pending, i)
    /\ hm' = IF pending[i].awaited THEN Idle ELSE hm
    /\ noPerform
    /\ UNCHANGED <<canvas, heap>>
    /\ unobserved
    /\ elsewhere

(* ------------------------------- editor -------------------------------- *)
\* the bootstrap's createDocument('Untitled'): one empty document, active
NewStore == [documentId |-> 1, documents |-> (1 :> <<>>), resetOpen |-> FALSE, made |-> 1]

NoCopy == [pc |-> "idle"]

\* clipboardRef.current = null, suppressNextDomPasteRef.current = false, no paste() running,
\* no native paste event about to be dispatched, nothing notified, no paste gesture made
NoClip == [entry |-> <<>>, suppress |-> FALSE, call |-> [pc |-> "idle"], due |-> FALSE,
           status |-> <<>>, pastes |-> 0, last |-> <<>>]

\* selection: { ..., fill: null, ... }
NoSelection == [fill |-> NoFill]

\* gallery: [], an empty checksumIndex; no id generated, no operation called yet
\* flight: the addToGallery calls that are at an await
NoGallery == [items |-> <<>>, index |-> {}, made |-> 0, calls |-> 0, last |-> <<>>, flight |-> <<>>]

\* a new, empty document with an empty history; cmds commands may be recorded and
\* the observer keeps win gestures
InitEditor(cmds, win) ==
    /\ canvas = [objects |-> <<>>, active |-> {}]
    /\ heap = <<>>
    /\ pending = <<>>
    /\ undoStack = <<>>
    /\ redoStack = <<>>
    /\ hm = Idle
    /\ nextCmdId = 1
    /\ budget = cmds
    /\ lastOp = "none"
    /\ evicted = {}
    /\ log = <<>>
    /\ window = win
    /\ doc = NewStore
    /\ copy = NoCopy
    /\ clip = NoClip
    /\ gallery = NoGallery
    /\ selection = NoSelection

Init == InitEditor(MaxCmds, 0)

Next ==
    \/ \E kind \in Kinds, l \in Lefts : CreateShape(kind, l)
    \/ \E S \in SUBSET (1..MaxObj) : SelectObjects(S)
    \/ \E o \in 1..MaxObj : ClickObject(o)
    \/ \E l \in Lefts : Transform(l)
    \/ \E r \in Radii : CornerRadius(r)
    \/ DeleteSelection
    \/ Cut
    \/ undo
    \/ redo
    \/ historySettle
    \/ \E i \in 1..MaxPending : enlivenState(i)
    \/ \E i \in 1..MaxPending : enlivenFailed(i)

Spec == Init /\ [][Next]_vars

(* --------------------- the editor under observation -------------------- *)
InitLog == InitEditor(MaxLogCmds, MaxLog)

NextLog ==
    \/ \E kind \in Kinds, l \in Lefts : CreateShape(kind, l)
    \/ \E S \in SUBSET (1..MaxObj) : SelectObjects(S)
    \/ \E l \in Lefts : Transform(l)
    \/ DeleteSelection
    \/ Cut
    \/ undo
    \/ redo
    \/ historySettle
    \/ \E i \in 1..MaxPending : enlivenState(i)
    \/ \E i \in 1..MaxPending : enlivenFailed(i)

SpecLog == InitLog /\ [][NextLog]_vars


(* ------------------------------ documents ------------------------------ *)
\* commandManager.clear()
clear == undoStack' = <<>> /\ redoStack' = <<>>

\* canvas.clear(): every object and the selection go
canvasClear == [objects |-> <<>>, active |-> {}]

\* canvas.toJSON(): the objects' bags, bottom to top
toJSON(cv, hp) == [i \in DOMAIN cv.objects |-> toObject(hp[cv.objects[i]])]

\* store createDocument: a record with an empty scene is put and becomes the active one
createDocument(d) ==
    [d EXCEPT !.documentId = d.made + 1,
              !.made = d.made + 1,
              !.documents = [i \in DOMAIN d.documents \cup {d.made + 1} |->
                                IF i = d.made + 1 THEN <<>> ELSE d.documents[i]]]

\* store deleteDocument: the record goes; deleting the active one creates a new document
deleteDocument(d, id) ==
    LET gone == [d EXCEPT !.documents = [i \in DOMAIN d.documents \ {id} |-> d.documents[i]]]
    IN  IF d.documentId = id THEN createDocument(gone) ELSE gone

\* store saveDocument(canvas, {force: true}): skipped when the record is gone
saveDocument(d, cv, hp) ==
    IF d.documentId \in DOMAIN d.documents
    THEN [d EXCEPT !.documents[d.documentId] = toJSON(cv, hp)]
    ELSE d

\* the document operations leave these alone
docFrame ==
    UNCHANGED <<pending, hm, nextCmdId, budget, lastOp, evicted, copy, clip, gallery, selection>>

\* menu 'New': createDocument and nothing else
handleCreate ==
    /\ HandlerTurn
    /\ doc.made < MaxDocs
    /\ doc' = createDocument(doc)
    /\ UNCHANGED <<canvas, heap, undoStack, redoStack>>
    /\ docFrame
    /\ observe("new", 0)

\* browser 'Open' of another document: loadDocument(id, canvas) clears the history,
\* loads the stored scene as fresh objects and makes the document active
handleOpen(id) ==
    /\ HandlerTurn
    /\ id \in DOMAIN doc.documents
    /\ id # doc.documentId
    /\ Len(heap) + Len(doc.documents[id]) <= MaxObj
    /\ clear
    /\ heap' = heap \o [i \in DOMAIN doc.documents[id] |-> fromObject(doc.documents[id][i])]
    /\ canvas' = [objects |-> [i \in DOMAIN doc.documents[id] |-> Len(heap) + i], active |-> {}]
    /\ doc' = [doc EXCEPT !.documentId = id]
    /\ docFrame
    /\ observe("open", 0)

\* browser 'Delete', confirmed: deleteDocument(id, canvas); the canvas is cleared when
\* the document was the active one
confirmDelete(id) ==
    /\ HandlerTurn
    /\ id \in DOMAIN doc.documents
    /\ id = doc.documentId => doc.made < MaxDocs
    /\ doc' = deleteDocument(doc, id)
    /\ canvas' = IF id = doc.documentId THEN canvasClear ELSE canvas
    /\ UNCHANGED <<heap, undoStack, redoStack>>
    /\ docFrame
    /\ observe("delete-doc", 0)

\* menu 'Reset Canvas': an empty canvas takes the fast path, otherwise the dialog opens
triggerReset ==
    /\ HandlerTurn
    /\ ~ doc.resetOpen
    /\ IF canvas.objects = <<>>
       THEN /\ doc.made < MaxDocs
            /\ doc' = createDocument(doc)
            /\ canvas' = canvasClear
            /\ clear
       ELSE /\ doc' = [doc EXCEPT !.resetOpen = TRUE]
            /\ UNCHANGED <<canvas, undoStack, redoStack>>
    /\ UNCHANGED heap
    /\ docFrame
    /\ observe("reset", 0)

\* dialog 'Save & reset'
resetSave ==
    /\ HandlerTurn
    /\ doc.resetOpen
    /\ doc.made < MaxDocs
    /\ doc' = [createDocument(saveDocument(doc, canvas, heap)) EXCEPT !.resetOpen = FALSE]
    /\ canvas' = canvasClear
    /\ clear
    /\ UNCHANGED heap
    /\ docFrame
    /\ observe("reset-save", 0)

\* dialog 'Discard & reset'
resetDiscard ==
    /\ HandlerTurn
    /\ doc.resetOpen
    /\ doc.made < MaxDocs
    /\ doc' = [deleteDocument(doc, doc.documentId) EXCEPT !.resetOpen = FALSE]
    /\ canvas' = canvasClear
    /\ clear
    /\ UNCHANGED heap
    /\ docFrame
    /\ observe("reset-discard", 0)

\* dialog 'Cancel'
resetCancel ==
    /\ HandlerTurn
    /\ doc.resetOpen
    /\ doc' = [doc EXCEPT !.resetOpen = FALSE]
    /\ UNCHANGED <<canvas, heap, undoStack, redoStack>>
    /\ docFrame
    /\ observe("reset-cancel", 0)

InitDoc == InitEditor(MaxDocCmds, 1)

NextDoc ==
    \/ \E kind \in Kinds, l \in Lefts : CreateShape(kind, l)
    \/ undo
    \/ redo
    \/ historySettle
    \/ handleCreate
    \/ \E id \in 1..MaxDocs : handleOpen(id)
    \/ \E id \in 1..MaxDocs : confirmDelete(id)
    \/ triggerReset
    \/ resetSave
    \/ resetDiscard
    \/ resetCancel

SpecDoc == InitDoc /\ [][NextDoc]_vars

(* ------------------------------- gallery ------------------------------- *)
\* kind of the resource: a multi-selection, an image, any other object
galleryKind(bags) ==
    IF Len(bags) > 1 THEN "selection" ELSE IF bags[1].type = "image" THEN "image" ELSE "object"

\* Math.min(...lefts)
minLeft(bags) == CHOOSE m \in {bags[i].left : i \in DOMAIN bags} : \A i \in DOMAIN bags : m <= bags[i].left

\* a payload hashed as it is, position included
rawForHash(kind, bags) == bags

\* normForHash: a selection's members are placed relative to the leftmost one, a single
\* object is placed at 0
normForHash(kind, bags) ==
    IF kind = "selection"
    THEN [i \in DOMAIN bags |-> [bags[i] EXCEPT !.left = @ - minLeft(bags)]]
    ELSE [i \in DOMAIN bags |-> [bags[i] EXCEPT !.left = 0]]

\* stableHash (ohash of the canonical form): equal exactly for equal normalised payloads
stableHash(norm) == <<"ohash", norm>>

\* .slice(0, 200) with the cap left out
sliceAll(items) == items

\* .slice(0, 200)
sliceCap(items) == IF Len(items) > galleryCap THEN SubSeq(items, 1, galleryCap) ELSE items

\* state.gallery.findIndex(g => g.id === id), 0 for -1
findIndex(items, id) ==
    IF \E i \in DOMAIN items : items[i].id = id
    THEN CHOOSE i \in DOMAIN items : items[i].id = id
    ELSE 0

\* checksumIndex.has(checksum)
indexHas(g, checksum) == \E e \in g.index : e.checksum = checksum

\* checksumIndex.get(checksum)
indexGet(g, checksum) == (CHOOSE e \in g.index : e.checksum = checksum).id

\* checksumIndex.set(checksum, id)
indexSet(index, checksum, id) ==
    {e \in index : e.checksum # checksum} \cup {[checksum |-> checksum, id |-> id]}

\* addToGallery(obj), obj given by the bags of its members: an entry with the same
\* checksum is bumped to the front, otherwise a new entry is put in front
addToGallery(g, bags) ==
    LET kind     == galleryKind(bags)
        checksum == stableHash(normForHash(kind, bags))
        idx      == IF indexHas(g, checksum) THEN findIndex(g.items, indexGet(g, checksum)) ELSE 0
        stamp    == g.calls + 1
        called   == [g EXCEPT !.calls = stamp, !.last = <<[kind |-> kind, bags |-> bags]>>]
    IN  IF idx # 0
        THEN [called EXCEPT !.items =
                sliceCap(<<[g.items[idx] EXCEPT !.addedAt = stamp]>>
                            \o SubSeq(g.items, 1, idx - 1)
                            \o SubSeq(g.items, idx + 1, Len(g.items)))]
        ELSE [called EXCEPT
                !.made = @ + 1,
                !.index = indexSet(@, checksum, g.made + 1),
                !.items = sliceCap(<<[id |-> g.made + 1, kind |-> kind, payload |-> bags,
                                      checksum |-> checksum, addedAt |-> stamp]>> \o g.items)]

galleryFrame ==
    UNCHANGED <<canvas, heap, pending, undoStack, redoStack, hm, nextCmdId, budget, lastOp,
                evicted, log, window, doc, copy, clip, selection>>

\* a rect as the gallery serializes it
rectBag(l, r) == [type |-> "rect", left |-> l, fill |-> "blue", rx |-> r]

\* corner radii of the resources offered to the gallery: two small ones and the ones
\* around the cap
GalleryRadii == {1, 2, galleryCap - 1, galleryCap, galleryCap + 1}

\* the resources offered: single rects, and pairs of rects selected together
GalleryArgs ==
    {<<rectBag(l, r)>> : l \in Lefts, r \in GalleryRadii}
    \cup {<<rectBag(l1, 1), rectBag(l2, 2)>> : l1 \in Lefts, l2 \in Lefts}

\* one addToGallery call, run to its end before the next
AddToGallery(bags) ==
    /\ gallery.calls < MaxGalleryCalls
    /\ gallery' = addToGallery(gallery, bags)
    /\ galleryFrame

\* removeFromGallery(id): the entry (ids are unique) and its checksum go
removeFromGallery(id) ==
    /\ gallery.calls < MaxGalleryCalls
    /\ findIndex(gallery.items, id) # 0
    /\ gallery' = [gallery EXCEPT
            !.calls = @ + 1,
            !.items = dropAt(@, findIndex(@, id)),
            !.index = {e \in @ : e.checksum # gallery.items[findIndex(gallery.items, id)].checksum},
            !.last = <<>>]
    /\ galleryFrame

\* clearGallery
clearGallery ==
    /\ gallery.calls < MaxGalleryCalls
    /\ gallery.items # <<>>
    /\ gallery' = [gallery EXCEPT !.calls = @ + 1, !.items = <<>>, !.index = {}, !.last = <<>>]
    /\ galleryFrame

\* the ids a remove is tried on: the first and the last entry
RemovableIds ==
    IF gallery.items = <<>> THEN {} ELSE {gallery.items[1].id, Last(gallery.items).id}

\* a gallery one short of its cap: rects of radius 1 .. galleryCap - 1 added in that order
nearFullGallery ==
    [items |-> [i \in 1..(galleryCap - 1) |->
                    [id |-> galleryCap - i, kind |-> "object",
                     payload |-> <<rectBag(0, galleryCap - i)>>,
                     checksum |-> stableHash(normForHash("object", <<rectBag(0, galleryCap - i)>>)),
                     addedAt |-> 0]],
     index |-> {[checksum |-> stableHash(normForHash("object", <<rectBag(0, r)>>)), id |-> r] :
                    r \in 1..(galleryCap - 1)},
     made |-> galleryCap - 1, calls |-> 0, last |-> <<>>, flight |-> <<>>]

\* an idle editor whose gallery is empty or one short of its cap
InitGallery ==
    /\ canvas = [objects |-> <<>>, active |-> {}]
    /\ heap = <<>>
    /\ pending = <<>>
    /\ undoStack = <<>>
    /\ redoStack = <<>>
    /\ hm = Idle
    /\ nextCmdId = 1
    /\ budget = 0
    /\ lastOp = "none"
    /\ evicted = {}
    /\ log = <<>>
    /\ window = 0
    /\ doc = NewStore
    /\ copy = NoCopy
    /\ clip = NoClip
    /\ gallery \in {NoGallery, nearFullGallery}
    /\ selection = NoSelection

NextGallery ==
    \/ \E bags \in GalleryArgs : AddToGallery(bags)
    \/ \E id \in RemovableIds : removeFromGallery(id)
    \/ clearGallery

SpecGallery == InitGallery /\ [][NextGallery]_vars

(* -------------------------------- paste --------------------------------- *)
\* what navigator.clipboard turns out to hold when paste() reads it: no read API, a
\* rejected read, no item of a supported type, an SVG that parses to one object, to no
\* object or not at all, a PNG/JPEG that loads or fails to load
ClipboardReads ==
    {"unavailable", "denied", "empty", "svg-ok", "svg-none", "svg-throws", "image-ok", "image-fail"}

\* what a native paste event carries: nothing usable, an image file that loads or fails to
\* load, inline SVG that parses to one object or to none, plain text
EventData == {"none", "image-ok", "image-fail", "svg-ok", "svg-none", "text"}

\* notify(msg): "pasting" starts a loading toast, /(pasted|copied)/ without
\* /failed|blocked|unavailable/ is a success, /failed|blocked|unavailable/ an error
notify(msg) ==
    [msg |-> msg,
     level |-> IF msg = "Pasting image..." THEN "loading"
               ELSE IF msg \in {"Pasted image", "Pasted SVG", "Pasted Text"} THEN "success"
               ELSE IF msg \in {"Image paste failed", "Clipboard read blocked"} THEN "error"
               ELSE "plain"]

\* toast.error(msg), called directly
toastError(msg) == [msg |-> msg, level |-> "error"]

\* the scene a paste works on, the statuses it has reported and the command it has
\* recorded (at most one)
PasteState(cv, hp, g) == [cv |-> cv, hp |-> hp, g |-> g, status |-> <<>>, rec |-> <<>>]

\* canvas.add(obj); canvas.setActiveObject(obj) of a new object
addActive(st, h) ==
    [st EXCEPT !.hp = Append(@, h),
               !.cv = [objects |-> Append(@.objects, Len(st.hp) + 1), active |-> {Len(st.hp) + 1}]]

\* addImageBlob: the image is centred at the target, added and made active, or the
\* failure is caught and reported
addImageBlob(st, loads, target) ==
    LET started == [st EXCEPT !.status = Append(@, notify("Pasting image..."))]
    IN  IF loads
        THEN [addActive(started, [qcId |-> NoId, type |-> "image", left |-> target,
                                  fill |-> "rgb(0,0,0)", rx |-> 0, qcBefore |-> <<>>])
                EXCEPT !.status = Append(@, notify("Pasted image"))]
        ELSE [started EXCEPT !.status = Append(@, notify("Image paste failed"))]

\* addSVGString for a document of at most one drawable object: the object is added and
\* made active; no object, or a throw, ends in a toast.error of its own
addSVGString(st, parsed, target) ==
    CASE parsed = "ok" ->
            addActive(st, [qcId |-> NoId, type |-> "path", left |-> target, fill |-> "red",
                           rx |-> 0, qcBefore |-> <<>>])
      [] parsed = "none" ->
            [st EXCEPT !.status = Append(@, toastError("SVG contained no drawable objects"))]
      [] OTHER ->
            [st EXCEPT !.status = Append(@, toastError("Failed to paste SVG"))]

\* const obj = canvas.getActiveObject(); if (obj) addToGallery(obj): the call is not
\* awaited by its callers; its update of the gallery is taken with the paste that made it
galleryActive(st) ==
    IF st.cv.active = {} THEN st ELSE [st EXCEPT !.g = addToGallery(@, activeBags(st.cv, st.hp))]

\* if (obj) { addToGallery(obj); recordAddObjects(canvas, obj, label); }
registerActive(st, label) ==
    IF st.cv.active = {} THEN st
    ELSE [galleryActive(st) EXCEPT !.rec = <<[objs |-> activeMembers(st.cv), label |-> label]>>]

\* tryReadFromSystemClipboard with paste()'s two callbacks: did is the value returned
tryReadFromSystemClipboard(st, read, target) ==
    CASE read = "unavailable" -> [st |-> st, did |-> FALSE]
      [] read = "denied" ->
            [st |-> [st EXCEPT !.status = Append(@, notify("Clipboard read blocked"))],
             did |-> FALSE]
      [] read = "empty" -> [st |-> st, did |-> FALSE]
      [] read \in {"svg-ok", "svg-none", "svg-throws"} ->
            [st |-> [registerActive(addSVGString(st, IF read = "svg-ok" THEN "ok"
                                                     ELSE IF read = "svg-none" THEN "none"
                                                     ELSE "throws", target), "Paste SVG")
                        EXCEPT !.status = Append(@, notify("Pasted SVG"))],
             did |-> TRUE]
      [] OTHER ->
            [st |-> registerActive(addImageBlob(st, read = "image-ok", target), "Paste image"),
             did |-> TRUE]

\* a clone left where the copied object was
leaveInPlace(bags, target) == bags

\* the clone of the entry centred at the target: a selection keeps its members' offsets
centerObjectAt(bags, target) ==
    [i \in DOMAIN bags |-> [bags[i] EXCEPT !.left = @ - minLeft(bags) + target]]

RECURSIVE addEach(_, _)
\* canvas.add of each object built from a bag, in turn
addEach(st, bags) ==
    IF bags = <<>> THEN st
    ELSE addEach([st EXCEPT !.hp = Append(@, fromObject(Head(bags))),
                            !.cv = canvasAdd(@, Len(st.hp) + 1)], Tail(bags))

\* paste() from the in-process entry: the clone's objects are added, made the active
\* selection, offered to the gallery and recorded ('Paste selection' / 'Paste')
pasteEntry(st, entry, target) ==
    LET cleared == [st EXCEPT !.cv = discardActiveObject(@)]
        added   == addEach(cleared, centerObjectAt(entry, target))
        objs    == [i \in DOMAIN entry |-> Len(st.hp) + i]
        active  == [added EXCEPT !.cv.active = Range(objs)]
    IN  [galleryActive(active) EXCEPT
            !.rec = <<[objs |-> objs,
                       label |-> IF Len(entry) > 1 THEN "Paste selection" ELSE "Paste"]>>]

\* a fallback that drops the active selection before it looks for the entry
fallbackDiscarding(st, entry, target) ==
    IF entry = <<>> THEN [st EXCEPT !.cv = discardActiveObject(@)]
    ELSE pasteEntry(st, entry, target)

\* const entry = clipboardRef.current; if (!entry) return; ...
fallback(st, entry, target) ==
    IF entry = <<>> THEN st ELSE pasteEntry(st, entry, target)

\* a paste() that goes on to the entry whatever the read returned
neverSystem(did) == FALSE

\* if (didSystem) return;
didSystem(did) == did

\* paste() from its first line to its last
paste(st, read, entry, target) ==
    LET r == tryReadFromSystemClipboard(st, read, target)
    IN  IF didSystem(r.did) THEN r.st ELSE fallback(r.st, entry, target)

\* the handles between two heaps
newHandles(before, after) == (Len(before) + 1)..Len(after)

pasteFrame == UNCHANGED <<pending, hm, log, window, doc, copy, selection>>

\* the scene, the gallery and the history after a paste that ended in st
commit(st) ==
    /\ canvas' = st.cv
    /\ gallery' = st.g
    /\ IF st.rec = <<>>
       THEN heap' = st.hp /\ noPerform
       ELSE LET hp1 == ensureAll(st.hp, st.rec[1].objs)
            IN  /\ heap' = hp1
                /\ perform(recordAddObjects(nextCmdId, hp1, st.rec[1].objs, st.rec[1].label))

\* Ctrl/Cmd+C: copy() keeps a clone of the active object in clipboardRef
copyHandler ==
    /\ HandlerTurn
    /\ ~clip.due
    /\ canvas.active # {}
    /\ clip' = [clip EXCEPT !.entry = activeBags(canvas, heap)]
    /\ noPerform
    /\ UNCHANGED <<canvas, heap, gallery>>
    /\ pasteFrame

\* Ctrl/Cmd+V in handleKeydown: e.preventDefault(); suppressNextDomPasteRef.current = true;
\* paste(), which runs to its await of the clipboard read. Whether the browser still
\* dispatches the gesture's native paste event after preventDefault is its own choice.
pasteKey(read, target, dispatched) ==
    /\ HandlerTurn
    /\ ~clip.due
    /\ clip.call.pc = "idle"
    /\ clip.pastes < MaxPastes
    /\ clip' = [clip EXCEPT !.suppress = TRUE,
                            !.call = [pc |-> "reading", read |-> read, target |-> target],
                            !.due = dispatched,
                            !.pastes = @ + 1]
    /\ noPerform
    /\ UNCHANGED <<canvas, heap, gallery>>
    /\ pasteFrame

\* the rest of paste(), once the clipboard read has settled
pasteSettle ==
    /\ clip.call.pc = "reading"
    /\ ~clip.due
    /\ LET st == paste(PasteState(canvas, heap, gallery), clip.call.read, clip.entry,
                       clip.call.target)
           r  == tryReadFromSystemClipboard(PasteState(canvas, heap, gallery), clip.call.read,
                                            clip.call.target)
       IN  /\ commit(st)
           /\ clip' = [clip EXCEPT
                    !.call = [pc |-> "idle"],
                    !.status = st.status,
                    !.last = <<[via |-> "call", read |-> clip.call.read,
                                sys |-> newHandles(heap, r.st.hp),
                                ent |-> newHandles(r.st.hp, st.hp)]>>]
    /\ pasteFrame

\* handlePasteEvent past its guards, with no middle-button pan under way: an image file,
\* else inline SVG, else plain text made an IText
pasteData(st, data, target) ==
    CASE data \in {"image-ok", "image-fail"} ->
            galleryActive(addImageBlob(st, data = "image-ok", target))
      [] data \in {"svg-ok", "svg-none"} ->
            galleryActive([addSVGString(st, IF data = "svg-ok" THEN "ok" ELSE "none", target)
                             EXCEPT !.status = Append(@, notify("Pasted SVG"))])
      [] data = "text" ->
            [addActive(st, [qcId |-> NoId, type |-> "i-text", left |-> target,
                            fill |-> "#111827", rx |-> 0, qcBefore |-> <<>>])
                EXCEPT !.status = Append(@, notify("Pasted Text"))]
      [] OTHER -> st

\* the window's paste listener. The event is the one the browser dispatches for the
\* Ctrl/Cmd+V just handled (clip.due), or it comes from a gesture of its own (the
\* browser's menu, a paste the shortcut handler never saw)
handlePasteEvent(data, target) ==
    /\ HandlerTurn
    /\ clip.due \/ clip.pastes < MaxPastes
    /\ IF clip.suppress
       THEN /\ clip' = [clip EXCEPT
                    !.suppress = FALSE, !.due = FALSE,
                    !.pastes = IF clip.due THEN @ ELSE @ + 1,
                    !.last = <<[via |-> "event", own |-> clip.due, data |-> data,
                                handled |-> FALSE, added |-> {}]>>]
            /\ noPerform
            /\ UNCHANGED <<canvas, heap, gallery>>
       ELSE LET st == pasteData(PasteState(canvas, heap, gallery), data, target)
            IN  /\ commit(st)
                /\ clip' = [clip EXCEPT
                        !.due = FALSE,
                        !.pastes = IF clip.due THEN @ ELSE @ + 1,
                        !.status = st.status,
                        !.last = <<[via |-> "event", own |-> clip.due, data |-> data,
                                    handled |-> TRUE, added |-> newHandles(heap, st.hp)]>>]
    /\ pasteFrame

\* an empty document; every command a creation or a paste can record fits the budget
InitPaste ==
    /\ canvas = [objects |-> <<>>, active |-> {}]
    /\ heap = <<>>
    /\ pending = <<>>
    /\ undoStack = <<>>
    /\ redoStack = <<>>
    /\ hm = Idle
    /\ nextCmdId = 1
    /\ budget = MaxObj + MaxPastes
    /\ lastOp = "none"
    /\ evicted = {}
    /\ log = <<>>
    /\ window = 0
    /\ doc = NewStore
    /\ copy = NoCopy
    /\ clip = NoClip
    /\ gallery = NoGallery
    /\ selection = NoSelection

\* no other handler runs between a keydown and the native event it causes
NextPaste ==
    \/ ~clip.due /\ CreateShape("rect", 0)
    \/ ~clip.due /\ \E o \in 1..(MaxObj + MaxPastes) : SelectObjects({o})
    \/ ~clip.due /\ SelectObjects({})
    \/ copyHandler
    \/ \E read \in ClipboardReads, target \in Lefts, dispatched \in BOOLEAN :
            pasteKey(read, target, dispatched)
    \/ pasteSettle
    \/ \E data \in EventData, target \in Lefts : handlePasteEvent(data, target)

SpecPaste == InitPaste /\ [][NextPaste]_vars

(* ------------------------------- layers -------------------------------- *)
\* a document of MaxLayerObjs rects stacked in the order they were made, none selected;
\* the observer keeps the last gesture
InitLayer ==
    /\ heap = [i \in 1..MaxLayerObjs |->
                    [qcId |-> i, type |-> "rect", left |-> 0, fill |-> "blue", rx |-> 0,
                     qcBefore |-> <<>>]]
    /\ canvas = [objects |-> [i \in 1..MaxLayerObjs |-> i], active |-> {}]
    /\ pending = <<>>
    /\ undoStack = <<>>
    /\ redoStack = <<>>
    /\ hm = Idle
    /\ nextCmdId = 1
    /\ budget = MaxLayerCmds
    /\ lastOp = "none"
    /\ evicted = {}
    /\ log = <<>>
    /\ window = 1
    /\ doc = NewStore
    /\ copy = NoCopy
    /\ clip = NoClip
    /\ gallery = NoGallery
    /\ selection = NoSelection

NextLayer ==
    \/ \E S \in SUBSET (1..MaxLayerObjs) : SelectObjects(S)
    \/ bringForward
    \/ sendBackward
    \/ bringToFront
    \/ sendToBack
    \/ undo
    \/ redo
    \/ historySettle

SpecLayer == InitLayer /\ [][NextLayer]_vars

(* -------------------------------- fills -------------------------------- *)
\* the fills an object of the scene may carry: two colours, or none
FillValues == {"#111111", "#222222", NoFill}

\* the objects the scene is made of: rects and images, each with any of the fills
FillObjects ==
    [qcId : {NoId}, type : {"rect", "image"}, left : {0}, fill : FillValues, rx : {0},
     qcBefore : {<<>>}]

\* selection:created / selection:updated / selection:cleared -> pushSelection: the
\* pointer makes S the active selection and the store takes its summary
pushSelection(S) ==
    /\ HandlerTurn
    /\ S \subseteq Range(canvas.objects)
    /\ S # canvas.active
    /\ canvas' = [canvas EXCEPT !.active = S]
    /\ selection' = setSelectionFromCanvas(canvas', heap)
    /\ noPerform
    /\ UNCHANGED <<heap, pending, hm>>
    /\ unobserved
    /\ UNCHANGED <<doc, copy, clip, gallery>>

\* a loaded document of MaxFillObjs objects, none selected
InitFill ==
    /\ heap \in [1..MaxFillObjs -> FillObjects]
    /\ canvas = [objects |-> [i \in 1..MaxFillObjs |-> i], active |-> {}]
    /\ pending = <<>>
    /\ undoStack = <<>>
    /\ redoStack = <<>>
    /\ hm = Idle
    /\ nextCmdId = 1
    /\ budget = 0
    /\ lastOp = "none"
    /\ evicted = {}
    /\ log = <<>>
    /\ window = 0
    /\ doc = NewStore
    /\ copy = NoCopy
    /\ clip = NoClip
    /\ gallery = NoGallery
    /\ selection = NoSelection

NextFill ==
    \/ \E S \in SUBSET (1..MaxFillObjs) : pushSelection(S)
    \/ \E c \in FillValues \ {NoFill} : ApplyFill(c)

SpecFill == InitFill /\ [][NextFill]_vars

(* ------------------------ copyToSystemClipboard ------------------------ *)
\* what the environment of one call will do: the exports of a non-image selection
NonImageEnvs ==
    [isImage : {FALSE}, svgExport : {"ok", "empty", "throws"}, pngExport : {"ok", "throws"},
     src : {"none"}, fetch : {"ok"}, typed : {TRUE}, dataUrl : {"ok"}]

\* ... and the element, the fetches and the data URL of an image
ImageEnvs ==
    [isImage : {TRUE}, svgExport : {"ok"}, pngExport : {"ok"},
     src : {"none", "data", "remote"}, fetch : {"ok", "notok", "throws"}, typed : BOOLEAN,
     dataUrl : {"ok", "throws"}]

\* ... and the clipboard API: what exists and whether a write is let through
ClipboardEnvs ==
    [hasClipboard : BOOLEAN, hasWrite : BOOLEAN, hasWriteText : BOOLEAN,
     richWrite : {"ok", "rejects"}, textWrite : {"ok", "rejects"}]

\* the call's locals at its start: items = {}, svg = null, nothing reported yet
copyCall(env, api) ==
    [pc |-> "start", env |-> env, api |-> api, items |-> {}, svg |-> FALSE,
     status |-> <<>>, attempted |-> {}, result |-> "none"]

blobKey(env) == IF env.typed THEN "image/jpeg" ELSE "image/png"

\* the image branch: the element's bytes when they can be fetched, else a PNG of the
\* object; a throw anywhere leaves items as it is
imageItems(env) ==
    LET direct == CASE env.src = "none" -> {}
                    [] env.src = "data" -> {blobKey(env)}
                    [] env.src = "remote" -> IF env.fetch = "ok" THEN {blobKey(env)} ELSE {}
    IN  IF env.src = "data" /\ env.fetch = "throws" THEN {}
        ELSE IF direct # {} THEN direct
        ELSE IF env.dataUrl = "ok" THEN {"image/png"} ELSE {}

\* the other branch: SVG (three text types) and PNG, each in its own try
exportItems(env) ==
    (IF env.svgExport = "ok" THEN {"image/svg+xml", "text/plain", "text/html"} ELSE {})
    \cup (IF env.pngExport = "ok" THEN {"image/png"} ELSE {})

copyFrame ==
    UNCHANGED <<canvas, heap, pending, undoStack, redoStack, hm, nextCmdId, budget, lastOp,
                evicted, log, window, doc, clip, gallery, selection>>

\* lines 112-158: the items are gathered
copyExport ==
    /\ copy.pc = "start"
    /\ copy' = [copy EXCEPT
            !.pc = "exported",
            !.items = IF copy.env.isImage THEN imageItems(copy.env) ELSE exportItems(copy.env),
            !.svg = ~ copy.env.isImage /\ copy.env.svgExport = "ok"]
    /\ copyFrame

\* lines 160-169: the rich write, when the API is there and there is something to write
copyRich ==
    /\ copy.pc = "exported"
    /\ IF copy.api.hasClipboard /\ copy.api.hasWrite /\ copy.items # {}
       THEN IF copy.api.richWrite = "ok"
            THEN copy' = [copy EXCEPT !.pc = "done", !.attempted = @ \cup {"write"},
                                      !.status = Append(@, "Copied to system clipboard"),
                                      !.result = "true"]
            ELSE copy' = [copy EXCEPT !.pc = "text", !.attempted = @ \cup {"write"}]
       ELSE copy' = [copy EXCEPT !.pc = "text"]
    /\ copyFrame

\* lines 170-180: the text write, only when nothing was gathered but the SVG string
copyText ==
    /\ copy.pc = "text"
    /\ IF copy.items = {} /\ copy.svg /\ copy.api.hasClipboard /\ copy.api.hasWriteText
       THEN IF copy.api.textWrite = "ok"
            THEN copy' = [copy EXCEPT !.pc = "done", !.attempted = @ \cup {"writeText"},
                                      !.status = Append(@, "Copied SVG text"),
                                      !.result = "true"]
            ELSE copy' = [copy EXCEPT !.pc = "done", !.attempted = @ \cup {"writeText"},
                                      !.status = Append(@, "Clipboard blocked by browser"),
                                      !.result = "false"]
       ELSE copy' = [copy EXCEPT !.pc = "last"]
    /\ copyFrame

\* lines 181-185
copyFinish ==
    /\ copy.pc = "last"
    /\ IF copy.items = {}
       THEN copy' = [copy EXCEPT !.pc = "done",
                                 !.status = Append(@, "Clipboard API unavailable"),
                                 !.result = "false"]
       ELSE copy' = [copy EXCEPT !.pc = "done", !.result = "false"]
    /\ copyFrame

\* one call on the selection of an idle editor
InitCopy ==
    /\ canvas = [objects |-> <<>>, active |-> {}]
    /\ heap = <<>>
    /\ pending = <<>>
    /\ undoStack = <<>>
    /\ redoStack = <<>>
    /\ hm = Idle
    /\ nextCmdId = 1
    /\ budget = 0
    /\ lastOp = "none"
    /\ evicted = {}
    /\ log = <<>>
    /\ window = 0
    /\ doc = NewStore
    /\ clip = NoClip
    /\ gallery = NoGallery
    /\ selection = NoSelection
    /\ \E env \in NonImageEnvs \cup ImageEnvs, api \in ClipboardEnvs : copy = copyCall(env, api)

NextCopy ==
    \/ copyExport
    \/ copyRich
    \/ copyText
    \/ copyFinish

SpecCopy == InitCopy /\ [][NextCopy]_vars

(* ----------------------- a history at its depth cap -------------------- *)
\* one rect, created (command 1) and then given the corner radii 0, 4, 0, 4, ...
\* (commands 2, 3, ...): command i of that run
depthCmd(i) ==
    IF i = 1
    THEN recordAddObjects(1, ensureObjectId(<<newShape("rect", 0)>>, 1), <<1>>, "Add shape")
    ELSE recordPropertyMutation(i,
            <<[qcId |-> 1, props |-> [rx |-> IF i % 2 = 0 THEN 4 ELSE 0]]>>,
            <<[qcId |-> 1, props |-> [rx |-> IF i % 2 = 0 THEN 0 ELSE 4]]>>,
            "Corner Radius")

\* the editor after maxDepth - 1 such commands, the rect still selected
InitDepth ==
    /\ heap = [ensureObjectId(<<newShape("rect", 0)>>, 1) EXCEPT
                  ![1].rx = IF (maxDepth - 1) % 2 = 0 THEN 0 ELSE 4]
    /\ canvas = [objects |-> <<1>>, active |-> {1}]
    /\ pending = <<>>
    /\ undoStack = [i \in 1..(maxDepth - 1) |-> depthCmd(i)]
    /\ redoStack = <<>>
    /\ hm = Idle
    /\ nextCmdId = maxDepth
    /\ budget = MaxDepthCmds
    /\ lastOp = "perform"
    /\ evicted = {}
    /\ log = <<>>
    /\ window = 0
    /\ doc = NewStore
    /\ copy = NoCopy
    /\ clip = NoClip
    /\ gallery = NoGallery
    /\ selection = NoSelection

\* a new radius is recorded only within MaxRedo undos of the top
RadiusNearTop(r) == Len(redoStack) <= MaxRedo /\ CornerRadius(r)

NextDepth ==
    \/ \E r \in Radii : RadiusNearTop(r)
    \/ undo
    \/ redo
    \/ historySettle

SpecDepth == InitDepth /\ [][NextDepth]_vars

(* ------------------------ scenes that start stacked --------------------- *)
\* a scene of objects already there, with an empty history: a document just opened
InitScene(hp, objs, cmds, w) ==
    /\ heap = hp
    /\ canvas = [objects |-> objs, active |-> {}]
    /\ pending = <<>>
    /\ undoStack = <<>>
    /\ redoStack = <<>>
    /\ hm = Idle
    /\ nextCmdId = 1
    /\ budget = cmds
    /\ lastOp = "none"
    /\ evicted = {}
    /\ log = <<>>
    /\ window = w
    /\ doc = NewStore
    /\ copy = NoCopy
    /\ clip = NoClip
    /\ gallery = NoGallery
    /\ selection = NoSelection

\* n rects with their ids, one above the other
stackedRects(n) == [i \in 1..n |-> [newShape("rect", 0) EXCEPT !.qcId = i]]

\* removals and their undoing: one Cut is recorded, the last two gestures are observed
InitRemove == InitScene(stackedRects(MaxRemoveObjs), [i \in 1..MaxRemoveObjs |-> i], 1, 2)

NextRemove ==
    \/ \E S \in SUBSET (1..MaxRemoveObjs) : SelectObjects(S)
    \/ Cut
    \/ DeleteSelection
    \/ undo
    \/ redo
    \/ historySettle

SpecRemove == InitRemove /\ [][NextRemove]_vars

\* a Reorder undone over what removals and rehydrations left: three commands are recorded
\* over two rects, and one object more may be rehydrated
InitOrder == InitScene(stackedRects(MaxObj), [i \in 1..MaxObj |-> i], MaxOrderCmds, 0)

NextOrder ==
    \/ \E o \in 1..MaxOrderObjs : SelectObjects({o})
    \/ bringToFront
    \/ Cut
    \/ Transform(MaxLeft)
    \/ DeleteSelection
    \/ undo
    \/ redo
    \/ historySettle
    \/ enlivenStateWithin(1, MaxOrderObjs)

SpecOrder == InitOrder /\ [][NextOrder]_vars

\* a Modify of two objects undone and redone after both have left the scene: one
\* command is recorded, and its body's rehydrations run together
InitRehydrate == InitScene(stackedRects(MaxObj), [i \in 1..MaxObj |-> i], 1, 0)

NextRehydrate ==
    \/ \E S \in SUBSET (1..MaxObj) : SelectObjects(S)
    \/ \E l \in Lefts : Transform(l)
    \/ DeleteSelection
    \/ undoWithin(MaxInFlight)
    \/ redoWithin(MaxInFlight)
    \/ historySettle
    \/ \E i \in 1..MaxInFlight : enlivenStateWithin(i, MaxRehydrateObjs)
    \/ \E i \in 1..MaxInFlight : enlivenFailed(i)

SpecRehydrate == InitRehydrate /\ [][NextRehydrate]_vars

\* the continuation of undo()/redo() after its await is a microtask: once the body's
\* promise has settled, nothing keeps it from running
FairRehydrate == SpecRehydrate /\ WF_vars(historySettle)

(* ------------------- HistoryManager with a caller's commands ------------- *)
\* a Command whose execute() and undo() are the caller's: they touch nothing here and
\* the promise they return settles when and as the caller's work does
callerCmd(id) == Cmd(id, "Caller", "Command", <<>>, <<>>, <<>>, <<>>, <<>>, <<>>)

\* commandManager.perform(cmd, true): nothing in the manager holds it back while an
\* undo() or redo() is waiting
PerformCall ==
    /\ budget > 0
    /\ perform(callerCmd(nextCmdId))
    /\ UNCHANGED <<canvas, heap, pending, hm>>
    /\ observe("perform", nextCmdId)
    /\ elsewhere

\* commandManager.undo() up to its await
UndoCall ==
    /\ HandlerTurn
    /\ undoStack # <<>>
    /\ startCallWithin("undo", Last(undoStack), Body(canvas, heap, <<>>, TRUE, <<>>),
                       Front(undoStack), redoStack, MaxPending)

\* commandManager.redo() up to its await
RedoCall ==
    /\ HandlerTurn
    /\ redoStack # <<>>
    /\ startCallWithin("redo", Last(redoStack), Body(canvas, heap, <<>>, TRUE, <<>>),
                       undoStack, Front(redoStack), MaxPending)

\* await cmd.undo() / await cmd.execute() throws: the line after it never runs
bodyRejects ==
    /\ hm.op # "idle"
    /\ hm' = Idle
    /\ lastOp' = hm.op \o ":rejected"
    /\ UNCHANGED <<canvas, heap, pending, undoStack, redoStack, nextCmdId, budget, evicted>>
    /\ unobserved
    /\ elsewhere

InitHistory == InitScene(<<>>, <<>>, MaxHistoryCmds, 1)

NextHistory ==
    \/ PerformCall
    \/ UndoCall
    \/ RedoCall
    \/ historySettle
    \/ bodyRejects

SpecHistory == InitHistory /\ [][NextHistory]_vars

(* ----------------------- the builders called directly ------------------- *)
\* the property bags, lists of PropMutationState and ids the calls are made with
PropBags == [{} -> Radii] \cup [{"rx"} -> Radii] \cup {[rx |-> 0, ry |-> r] : r \in Radii}
PropLists ==
    {<<>>}
    \cup {<<[qcId |-> q, props |-> p]>> : q \in 1..MaxObj, p \in PropBags}
    \cup {<<[qcId |-> 1, props |-> p], [qcId |-> MaxObj, props |-> q]>> : p, q \in PropBags}

\* observer: the call just made, with its arguments
called(op, args) ==
    /\ log' = <<[op |-> op, args |-> args, next |-> nextCmdId]>>
    /\ UNCHANGED window

recordFrame == UNCHANGED <<canvas, pending, hm>> /\ elsewhere

\* ensureObjectId(obj) called by a handler on an object of the scene
EnsureObjectId(o) ==
    /\ budget > 0
    /\ Contains(canvas.objects, o)
    /\ heap' = ensureObjectId(heap, o)
    /\ noPerform
    /\ called("ensureObjectId", [obj |-> o, returned |-> ensureObjectId(heap, o)[o].qcId])
    /\ recordFrame

\* recordPropertyMutation(canvas, before, after, label, true)
RecordPropertyMutation(before, after) ==
    /\ budget > 0
    /\ IF propsChanged(before, after)
       THEN perform(recordPropertyMutation(nextCmdId, before, after, "Modify Properties"))
       ELSE noPerform
    /\ UNCHANGED heap
    /\ called("recordPropertyMutation", [before |-> before, after |-> after])
    /\ recordFrame

\* recordModify(canvas, before, after, label): if (!after.length) return;
RecordModify(before, after) ==
    /\ budget > 0
    /\ IF after = <<>> THEN noPerform
       ELSE perform(recordModify(nextCmdId, before, after, "Modify"))
    /\ UNCHANGED heap
    /\ called("recordModify", [before |-> before, after |-> after])
    /\ recordFrame

\* the snapshots of the scene's objects S as they are and as they would be at l
snapshotsAt(S, l) ==
    LET objs == Filter(canvas.objects, S)
    IN  [before |-> serializeObjects(heap, objs),
         after  |-> serializeObjects(moveAll(heap, objs, l), objs)]

\* two rects were created and the second creation undone, and two texts came in by
\* native paste events, which attach no id and record nothing
InitRecord ==
    /\ heap = <<[newShape("rect", 0) EXCEPT !.qcId = 1],
                [newShape("rect", 0) EXCEPT !.qcId = 2],
                fromObject([type |-> "i-text", left |-> 0, fill |-> "#111827", rx |-> 0]),
                fromObject([type |-> "i-text", left |-> 1, fill |-> "#111827", rx |-> 0])>>
    /\ canvas = [objects |-> <<1, 3, 4>>, active |-> {4}]
    /\ pending = <<>>
    /\ undoStack = <<recordAddObjects(1, heap, <<1>>, "Add shape")>>
    /\ redoStack = <<recordAddObjects(2, heap, <<2>>, "Add shape")>>
    /\ hm = Idle
    /\ nextCmdId = 3
    /\ budget = 1
    /\ lastOp = "undo"
    /\ evicted = {}
    /\ log = <<>>
    /\ window = 1
    /\ doc = NewStore
    /\ copy = NoCopy
    /\ clip = NoClip
    /\ gallery = NoGallery
    /\ selection = NoSelection

\* the run ends with the first command recorded
NextRecord ==
    \/ \E o \in 1..4 : EnsureObjectId(o)
    \/ \E before, after \in PropLists : RecordPropertyMutation(before, after)
    \/ \E S \in SUBSET {1, 3}, l \in Lefts :
            RecordModify(snapshotsAt(S, l).before, snapshotsAt(S, l).after)

SpecRecord == InitRecord /\ [][NextRecord]_vars

(* ------------------------------ properties ----------------------------- *)
\* no undo()/redo() call is suspended and no rehydration is in flight
settled == hm.op = "idle" /\ pending = <<>>

\* the k-th gesture from the end of the log (0: the last one)
gesture(k) == log[Len(log) - k]

count(s, x) == Cardinality({i \in DOMAIN s : s[i] = x})

\* the same objects with the same recorded properties, in any order
sameObjects(a, b) == \A x \in Range(a) \cup Range(b) : count(a, x) = count(b, x)

(* C1: whenever perform has returned the redo stack is empty, and a redo() invoked
   right after a perform finds no command and changes neither stack nor the scene
   (every call site passes alreadyExecuted = true). *)
C1_PerformClearsRedo ==
    /\ [](lastOp = "perform" => redoStack = <<>>)
    /\ [][(lastOp = "perform" /\ hm.op = "idle" /\ lastOp' \in {"redo", "redo:none"})
            => /\ lastOp' = "redo:none"
               /\ UNCHANGED <<canvas, heap, pending, undoStack, redoStack, hm, evicted>>]_vars

\* perform(c1); undo(); perform(c2); redo(): the redo found nothing, c2 alone is undoable
C1_RedoAfterPerformFoundNothing ==
    /\ lastOp = "redo:none"
    /\ hm.op = "idle"
    /\ nextCmdId = 3
    /\ redoStack = <<>>
    /\ Len(undoStack) = 1
    /\ undoStack[1].id = 2

(* C2: with the calls made one after the other, undoStack never holds more than
   maxDepth (250) commands; a perform on a full stack drops exactly the bottom command
   and keeps the others in order under the new one; no evicted command is ever on a
   stack or run again, and an undo() on an empty stack changes nothing. *)
C2_BoundedHistory ==
    /\ [](Len(undoStack) <= maxDepth)
    /\ [](/\ \A i \in DOMAIN undoStack : undoStack[i].id \notin evicted
          /\ \A i \in DOMAIN redoStack : redoStack[i].id \notin evicted
          /\ hm.op # "idle" => hm.cmd.id \notin evicted)
    /\ [][(nextCmdId' > nextCmdId /\ Len(undoStack) = maxDepth)
            => /\ Len(undoStack') = maxDepth
               /\ \A i \in 1..(maxDepth - 1) : undoStack'[i] = undoStack[i + 1]
               /\ undoStack'[maxDepth].id = nextCmdId
               /\ evicted' = evicted \cup {undoStack[1].id}]_vars
    /\ [][(undoStack = <<>> /\ hm.op = "idle" /\ lastOp # "undo:none" /\ lastOp' = "undo:none")
            => UNCHANGED <<canvas, heap, pending, undoStack, redoStack, hm, evicted>>]_vars

\* the bottom command was evicted, everything left was undone, and one more undo()
\* found nothing
C2_UndoneToTheBottomAfterEviction ==
    /\ evicted # {}
    /\ undoStack = <<>>
    /\ Len(redoStack) = maxDepth
    /\ lastOp = "undo:none"

(* C3: when a gesture has recorded a command and Ctrl+Z, Ctrl+Y follow it directly,
   the scene after the redo is the scene the undo started from: the same ids with
   the same recorded properties in the same stacking order. *)
C3_RedoRestoresPerformed ==
    (/\ Len(log) >= 3
     /\ gesture(1).op = "undo"
     /\ gesture(0).op = "redo"
     /\ gesture(1).next = gesture(2).next + 1
     /\ gesture(1).cmd = gesture(2).next
     /\ gesture(0).cmd = gesture(2).next
     /\ settled)
    => sceneOf(canvas, heap) = gesture(1).scene

(* C4: when a redo has executed a command and the next gesture undoes that command,
   the scene is the one the redo started from: the same ids with the same recorded
   properties, and the same stacking order when the command is a Reorder. *)
C4_UndoReversesExecute ==
    (/\ Len(log) >= 2
     /\ gesture(1).op = "redo"
     /\ gesture(0).op = "undo"
     /\ gesture(1).cmd # 0
     /\ gesture(0).cmd = gesture(1).cmd
     /\ settled)
    => /\ sameObjects(sceneOf(canvas, heap), gesture(1).scene)
       /\ Last(redoStack).kind = "Reorder" => sceneOf(canvas, heap) = gesture(1).scene

(* C5: create an object, delete it with Delete/Backspace or the panel, undo once:
   the object is back on the canvas with the id and the properties it was deleted with. *)
C5_UndoRestoresDeleted ==
    (/\ Len(log) >= 3
     /\ gesture(2).op = "create"
     /\ gesture(1).op = "delete"
     /\ gesture(0).op = "undo"
     /\ settled)
    => \A o \in gesture(1).sel :
          /\ Contains(canvas.objects, o)
          /\ serializeObject(heap, o) \in Range(gesture(1).scene)

(* C6: when cut() has completed, none of the selected objects is on the canvas, the
   selection is cleared and exactly one command, a Remove labelled 'Cut', has been
   pushed; a Ctrl+Z right after it puts the objects back. *)
C6_CutRemovesAndRecords ==
    /\ (Len(log) >= 1 /\ gesture(0).op = "cut")
       => /\ \A o \in gesture(0).sel : ~ Contains(canvas.objects, o)
          /\ canvas.active = {}
          /\ nextCmdId = gesture(0).next + 1
          /\ undoStack # <<>>
          /\ Last(undoStack).id = gesture(0).next
          /\ Last(undoStack).kind = "Remove"
          /\ Last(undoStack).label = "Cut"
    /\ (Len(log) >= 2 /\ gesture(1).op = "cut" /\ gesture(0).op = "undo" /\ settled)
       => \A o \in gesture(1).sel : Contains(canvas.objects, o)

(* C7: whenever an operation changes the active document (New, Open, Delete of the
   active document, Reset), both history stacks are empty when it has completed. *)
C7_HistoryPerDocument ==
    [][doc.documentId' # doc.documentId => (undoStack' = <<>> /\ redoStack' = <<>>)]_vars

(* C8: while an undo()/redo() call is running its command, no work started by an
   earlier call's command is still in progress. *)
C8_OneBodyAtATime ==
    hm.op # "idle" =>
        \A i \in DOMAIN pending : pending[i].cmd = hm.cmd.id /\ pending[i].op = hm.op

(* C9: for a non-image selection whose SVG export succeeded, when the rich write is
   unavailable or rejected (and writeText exists), the finished call has attempted
   writeText, and it reports success when that write went through. *)
C9_TextFallback ==
    (/\ copy.pc = "done"
     /\ ~ copy.env.isImage
     /\ copy.env.svgExport = "ok"
     /\ copy.api.hasClipboard /\ copy.api.hasWriteText
     /\ (~ copy.api.hasWrite \/ copy.api.richWrite = "rejects"))
    => /\ "writeText" \in copy.attempted
       /\ copy.api.textWrite = "ok" => copy.result = "true"

(* C10: a finished call has returned true or false (it never throws), and one that
   returned false has given the notifier at least one status string. *)
C10_FalseIsReported ==
    copy.pc = "done" =>
        /\ copy.result \in {"true", "false"}
        /\ copy.result = "false" => copy.status # <<>>

\* two resources that differ at most by where they are placed
samePlaced(a, b) ==
    /\ Len(a) = Len(b)
    /\ \E d \in -MaxLeft..MaxLeft : \A i \in DOMAIN a : b[i] = [a[i] EXCEPT !.left = @ + d]

(* C16: an addToGallery call that directly follows one whose object was the same up
   to its position does not grow the gallery and leaves the entry of the first call at
   index 0; no two entries of the gallery are ever the same up to position. *)
C16_SameShapeOneEntry ==
    /\ [](\A i, j \in DOMAIN gallery.items :
            samePlaced(gallery.items[i].payload, gallery.items[j].payload) => i = j)
    /\ [][(/\ gallery.last # <<>>
           /\ gallery'.calls = gallery.calls + 1
           /\ gallery'.last # <<>>
           /\ samePlaced(gallery.last[1].bags, gallery'.last[1].bags))
            => /\ Len(gallery'.items) = Len(gallery.items)
               /\ gallery'.items[1].id = gallery.items[1].id
               /\ samePlaced(gallery'.items[1].payload, gallery'.last[1].bags)]_vars

\* the same pair of rects was offered twice, the second time one step to the right:
\* the gallery holds the one entry of the first call
C16_PairOfferedTwice ==
    /\ gallery.calls = 2
    /\ Len(gallery.items) = 1
    /\ gallery.items[1].kind = "selection"
    /\ gallery.items[1].addedAt = 2
    /\ gallery.last # <<>>
    /\ gallery.last[1].bags # gallery.items[1].payload

(* C17: the gallery never holds more than 200 entries; the entry an addToGallery call
   added or bumped is first; the entries are in the order of their last add or bump;
   a new entry added to a full gallery drops exactly the last entry. *)
C17_GalleryCapAndOrder ==
    /\ [](Len(gallery.items) <= galleryCap)
    /\ [](\A i, j \in DOMAIN gallery.items : i < j => gallery.items[i].addedAt >= gallery.items[j].addedAt)
    /\ [][(gallery'.calls = gallery.calls + 1 /\ gallery'.last # <<>>)
            => /\ gallery'.items[1].payload \in {b \in GalleryArgs : samePlaced(b, gallery'.last[1].bags)}
               /\ gallery'.items[1].addedAt = gallery'.calls]_vars
    /\ [][(gallery'.made = gallery.made + 1 /\ Len(gallery.items) = galleryCap)
            => /\ Len(gallery'.items) = galleryCap
               /\ \A i \in 1..(galleryCap - 1) : gallery'.items[i + 1] = gallery.items[i]]_vars

\* a 201st distinct resource was added: the gallery is full and the oldest entry gone
C17_OldestDropped ==
    /\ Len(gallery.items) = galleryCap
    /\ gallery.made = galleryCap + 1
    /\ findIndex(gallery.items, 1) = 0
    /\ gallery.items[1].id = galleryCap + 1

(* --------------------------- paste properties -------------------------- *)
\* this step is the end of a paste() call
pasteSettles == clip.call.pc = "reading" /\ clip'.call.pc = "idle"

\* this step is handlePasteEvent run for one native paste event
eventRuns == clip.call = clip'.call /\ ((clip.due /\ ~clip'.due) \/ clip'.pastes = clip.pastes + 1)

\* the reads that return nothing to paste: no read API, a rejected read, no supported type
NothingRead == {"unavailable", "denied", "empty"}

\* C11: a paste() call adds the objects the system clipboard gave and then the ones the
\* in-process entry gave and nothing else; never both; the entry is used only when the
\* read was unavailable, denied or empty, and then whenever there is an entry
C11_SystemFirstThenEntry ==
    [][pasteSettles =>
        LET l == clip'.last[1]
        IN  /\ l.sys = {} \/ l.ent = {}
            /\ l.ent # {} => clip.call.read \in NothingRead
            /\ (clip.call.read \in NothingRead /\ clip.entry # <<>>) => l.ent # {}
            /\ l.sys # {} => clip.call.read \in {"svg-ok", "image-ok"}
            /\ Range(canvas'.objects) = Range(canvas.objects) \cup l.sys \cup l.ent
            /\ \A o \in l.ent : \E i \in DOMAIN clip.entry :
                    toObject(heap'[o]) = [clip.entry[i] EXCEPT !.left = toObject(heap'[o]).left]
      ]_vars

\* a paste() fell back to the entry after a denied read, with an object in the scene
C11_EntryUsedAfterDeniedRead ==
    /\ clip.last # <<>>
    /\ clip.last[1].via = "call"
    /\ clip.last[1].read = "denied"
    /\ clip.last[1].ent # {}
    /\ clip.last[1].ent \subseteq Range(canvas.objects)
    /\ Len(canvas.objects) = 2

\* C12: a paste() whose read was unavailable, denied or empty, with no entry kept, leaves
\* the objects, the active selection, both stacks and the gallery as they were
C12_NothingToPasteIsNoOp ==
    [][(pasteSettles /\ clip.call.read \in NothingRead /\ clip.entry = <<>>) =>
        /\ canvas' = canvas
        /\ heap' = heap
        /\ undoStack' = undoStack
        /\ redoStack' = redoStack
        /\ gallery'.items = gallery.items
        /\ gallery'.index = gallery.index
      ]_vars

\* a paste() found nothing in either source while an object was selected
C12_PastedNothingWithSelection ==
    /\ clip.last # <<>>
    /\ clip.last[1].via = "call"
    /\ clip.last[1].read \in NothingRead
    /\ clip.entry = <<>>
    /\ clip.call.pc = "idle"
    /\ canvas.active # {}

\* C13: every paste that adds objects, by paste() or by the native paste event, records
\* one Add command for exactly those objects; unless they are plain text they are offered
\* to the gallery, and plain text never is
C13_EveryPasteRecordsAdd ==
    [][((pasteSettles \/ eventRuns) /\ Len(heap') > Len(heap)) =>
        LET added == newHandles(heap, heap')
        IN  /\ Len(undoStack') = Len(undoStack) + 1
            /\ Last(undoStack').kind = "Add"
            /\ Range(Last(undoStack').arr) = added
            /\ IF \E o \in added : heap'[o].type = "i-text"
               THEN gallery' = gallery
               ELSE /\ gallery'.calls = gallery.calls + 1
                    /\ gallery'.last = <<[kind |-> galleryKind(activeBags(canvas', heap')),
                                          bags |-> activeBags(canvas', heap')]>>
      ]_vars

\* C14: a paste() whose SVG parses to nothing or throws, or whose image fails to load,
\* adds no object, records no command, leaves the gallery alone and ends on an error status
C14_FailedPasteReportsError ==
    [][(pasteSettles /\ clip.call.read \in {"svg-none", "svg-throws", "image-fail"}) =>
        /\ canvas'.objects = canvas.objects
        /\ undoStack' = undoStack
        /\ gallery' = gallery
        /\ clip'.status # <<>>
        /\ Last(clip'.status).level = "error"
      ]_vars

\* C15: the native paste event of a Ctrl/Cmd+V gesture is ignored, and a native paste
\* event of a gesture of its own is handled
C15_SuppressOnlyOwnEvent ==
    [][eventRuns =>
        /\ clip.due => (~clip'.last[1].handled /\ canvas' = canvas /\ undoStack' = undoStack)
        /\ ~clip.due => clip'.last[1].handled
      ]_vars

(* --------------------------- fill properties --------------------------- *)
\* the members of the active selection that support fill
fillMembers == {o \in canvas.active : supportsFill(heap[o])}

\* C18: after the selection summary was taken of a selection of several objects,
\* selection.fill is a colour v exactly when every member that supports fill has fill v
\* (there being one), and null otherwise, a member with no fill set making it null
C18_UnifiedFillIffAllEqual ==
    (Cardinality(canvas.active) > 1 /\ selection = setSelectionFromCanvas(canvas, heap)) =>
        \A v \in FillValues \ {NoFill} :
            selection.fill = v <=> (fillMembers # {} /\ \A o \in fillMembers : heap[o].fill = v)

(* --------------------------- layer properties -------------------------- *)
\* the flags of both panels say of op that it leaves the stacking order as it is
disabled(d, op) ==
    CASE op = "forward" -> d.fwd [] op = "backward" -> d.bwd [] op = "front" -> d.bfwd
      [] OTHER -> d.bback

LayerOps == {"forward", "backward", "front", "back"}

\* C19: with two or more objects stacked and some of them selected, each disable flag of
\* either panel is true exactly when its store operation leaves the stacking order unchanged
C19_DisabledIffNoChange ==
    (Len(canvas.objects) >= 2 /\ canvas.active # {}) =>
        \A op \in LayerOps :
            /\ disabled(computeLayerDisables(canvas), op) <=> restacked(canvas, op) = canvas.objects
            /\ disabled(panelLayerDisables(canvas), op) <=> restacked(canvas, op) = canvas.objects

\* C20: a reorder keeps the selected objects in their order and the unselected ones in
\* theirs; bringToFront leaves the selected ones together on top, sendToBack together
\* at the bottom
C20_ReorderKeepsRelativeOrder ==
    [][(canvas'.objects # canvas.objects /\ log'[1].op \in LayerOps /\ hm'.op = "idle") =>
        /\ Filter(canvas'.objects, canvas.active) = Filter(canvas.objects, canvas.active)
        /\ Filter(canvas'.objects, Range(canvas.objects) \ canvas.active)
                = Filter(canvas.objects, Range(canvas.objects) \ canvas.active)
        /\ log'[1].op = "front" =>
                canvas'.objects = Filter(canvas.objects, Range(canvas.objects) \ canvas.active)
                                    \o Filter(canvas.objects, canvas.active)
        /\ log'[1].op = "back" =>
                canvas'.objects = Filter(canvas.objects, canvas.active)
                                    \o Filter(canvas.objects, Range(canvas.objects) \ canvas.active)
      ]_vars

(* ------------------- ids, order and the stacks' moves ------------------- *)
\* C23: no two objects of the scene carry the same id, whichever commands have been
\* undone or redone and whichever objects they rehydrated
C23_UniqueIdsInScene ==
    \A i, j \in DOMAIN canvas.objects :
        (i # j /\ heap[canvas.objects[i]].qcId # NoId)
            => heap[canvas.objects[i]].qcId # heap[canvas.objects[j]].qcId

(* C25: while undo() waits for command.undo() the command is still on undoStack, and
   while redo() waits for command.execute() it is still on redoStack, so that a
   performed command is never on neither stack; and the call returns only when every
   rehydration the command's body started has finished. *)
C25_StacksHoldCommandUntilSettled ==
    /\ [](hm.op = "undo" => Contains(undoStack, hm.cmd))
    /\ [](hm.op = "redo" => Contains(redoStack, hm.cmd))
    /\ [][(hm.op # "idle" /\ hm'.op = "idle")
            => ~ \E i \in DOMAIN pending : pending[i].cmd = hm.cmd.id]_vars

(* C26: undo() takes exactly the top entry off undoStack and, when the command's
   undo() has settled, puts that entry on top of redoStack; redo() does the reverse;
   neither touches any other entry of either stack. *)
C26_UndoRedoMoveTheTopOnly ==
    [][/\ (hm.op = "idle" /\ hm'.op = "undo")
            => (undoStack' = Front(undoStack) /\ hm'.cmd = Last(undoStack)
                    /\ redoStack' = redoStack)
       /\ (hm.op = "undo" /\ hm'.op = "idle")
            => (redoStack' = Append(redoStack, hm.cmd) /\ undoStack' = undoStack)
       /\ (hm.op = "idle" /\ hm'.op = "redo")
            => (redoStack' = Front(redoStack) /\ hm'.cmd = Last(redoStack)
                    /\ undoStack' = undoStack)
       /\ (hm.op = "redo" /\ hm'.op = "idle")
            => (undoStack' = Append(undoStack, hm.cmd) /\ redoStack' = redoStack)
      ]_vars

(* C21: a bringForward, sendBackward, bringToFront or sendToBack that leaves the
   stacking order as it was records nothing: undoStack and redoStack are the same
   before and after it, an empty undoStack stays empty and undone commands stay
   on redoStack. *)
C21_NoOpReorderRecordsNothing ==
    [][(/\ log' # log
        /\ log' # <<>>
        /\ Last(log').op \in LayerOps
        /\ canvas'.objects = canvas.objects)
        => /\ undoStack' = undoStack
           /\ redoStack' = redoStack
           /\ nextCmdId' = nextCmdId
      ]_vars

\* the object on top was brought forward while an undone Reorder was waiting on redoStack
C21_NoOpAboveRedo ==
    /\ log # <<>>
    /\ Last(log).op = "forward"
    /\ Last(log).sel # {}
    /\ Last(log).scene = sceneOf(canvas, heap)
    /\ undoStack = <<>>
    /\ redoStack # <<>>

(* C24: copy() keeps the bags of the active object; a paste() served from that entry
   when it holds one object adds exactly one object on top of the scene, whose
   serialized properties are those of the copied object except the position, which is
   the paste target, and whose id is new; the objects already there, the copied one
   among them, are left as they were. *)
C24_PasteClonesTheCopiedObject ==
    [][/\ clip'.entry # clip.entry => clip'.entry = activeBags(canvas, heap)
       /\ (/\ clip.call.pc = "reading"
           /\ clip'.call.pc = "idle"
           /\ clip'.last[1].ent # {}
           /\ Len(clip.entry) = 1)
          => LET n == Len(heap) + 1
             IN  /\ Len(heap') = n
                 /\ canvas'.objects = Append(canvas.objects, n)
                 /\ toObject(heap'[n]) = [clip.entry[1] EXCEPT !.left = clip.call.target]
                 /\ heap'[n].qcId # NoId
                 /\ \A o \in 1..Len(heap) :
                        /\ heap'[o] = heap[o]
                        /\ heap'[o].qcId # heap'[n].qcId
                 /\ \E src \in 1..Len(heap) :
                        [toObject(heap'[src]) EXCEPT !.left = clip.call.target]
                            = toObject(heap'[n])
      ]_vars

\* the rect created at 0 was copied and its clone pasted at 1
C24_PastedAwayFromSource ==
    /\ clip.last # <<>>
    /\ clip.last[1].via = "call"
    /\ Len(clip.entry) = 1
    /\ \E n \in clip.last[1].ent, src \in DOMAIN heap :
            /\ src < n
            /\ Contains(canvas.objects, src)
            /\ heap[src].left = 0
            /\ heap[n].left = 1
            /\ heap[n].type = heap[src].type
            /\ heap[n].qcId # heap[src].qcId

(* --------------------- properties of the direct calls ------------------- *)
\* every entry of after has an entry of before with its id in which each key the
\* after entry lists has the same value
listedValuesKept(before, after) ==
    \A i \in DOMAIN after :
        \E j \in DOMAIN before :
            /\ before[j].qcId = after[i].qcId
            /\ \A key \in DOMAIN after[i].props :
                    /\ key \in DOMAIN before[j].props
                    /\ before[j].props[key] = after[i].props[key]

(* C30: recordPropertyMutation records nothing and leaves both stacks as they were
   when every entry of after has an entry of before with the same id that holds the
   same value for every key the after entry lists; otherwise it records exactly one
   command, holding the two lists. recordModify records nothing when after is empty. *)
C30_RecordsOnlyAChange ==
    [][(log' # log /\ log' # <<>>) =>
        LET c == Last(log')
        IN  /\ (c.op = "recordPropertyMutation"
                    /\ listedValuesKept(c.args.before, c.args.after))
               => (undoStack' = undoStack /\ redoStack' = redoStack
                        /\ nextCmdId' = nextCmdId)
            /\ (c.op = "recordPropertyMutation"
                    /\ ~ listedValuesKept(c.args.before, c.args.after))
               => /\ Len(undoStack') = Len(undoStack) + 1
                  /\ Front(undoStack') = undoStack
                  /\ Last(undoStack').kind = "Prop"
                  /\ Last(undoStack').before = c.args.before
                  /\ Last(undoStack').after = c.args.after
                  /\ nextCmdId' = nextCmdId + 1
            /\ (c.op = "recordModify" /\ c.args.after = <<>>)
               => (undoStack' = undoStack /\ redoStack' = redoStack
                        /\ nextCmdId' = nextCmdId)
      ]_vars

\* a call whose after lists the values before holds, for two objects, made above one
\* performed and one undone command, has returned
C30_SameValuesNothingRecorded ==
    /\ log # <<>>
    /\ Last(log).op = "recordPropertyMutation"
    /\ Len(Last(log).args.after) = 2
    /\ Len(Last(log).args.before) = 2
    /\ \E i \in 1..2 : DOMAIN Last(log).args.after[i].props = {"rx"}
    /\ \E i \in 1..2 : DOMAIN Last(log).args.before[i].props = {"rx", "ry"}
    /\ Len(undoStack) = 1
    /\ Len(redoStack) = 1
    /\ nextCmdId = 3

(* C22: ensureObjectId returns the id the object carries when it returns, an id once
   attached is never replaced, so every later call returns it again, and two distinct
   objects never hold the same id through it. *)
C22_IdsAreStableAndDistinct ==
    /\ [](\A o, p \in DOMAIN heap :
            (o # p /\ heap[o].qcId # NoId) => heap[o].qcId # heap[p].qcId)
    /\ [][/\ \A o \in DOMAIN heap : heap[o].qcId # NoId => heap'[o].qcId = heap[o].qcId
          /\ (log' # log /\ log' # <<>> /\ Last(log').op = "ensureObjectId")
             => LET c == Last(log').args
                IN  /\ c.returned # NoId
                    /\ c.returned = heap'[c.obj].qcId
                    /\ heap[c.obj].qcId # NoId => (c.returned = heap[c.obj].qcId /\ heap' = heap)
         ]_vars

\* the two pasted texts have been given ids, and the rect that had one was asked again
C22_TwoGivenOneAskedAgain ==
    /\ log # <<>>
    /\ Last(log).op = "ensureObjectId"
    /\ Last(log).args.obj = 1
    /\ Last(log).args.returned = heap[1].qcId
    /\ heap[3].qcId # NoId
    /\ heap[4].qcId # NoId
    /\ heap[3].qcId # heap[4].qcId

(* C27: when a Remove command has removed an object that was not on top and the next
   gesture undoes the command, the object is back at the stacking index it had: the
   whole order is the one the removal started from. *)
C27_UndoRemoveRestoresOrder ==
    (/\ Len(log) >= 2
     /\ gesture(1).op = "redo"
     /\ gesture(0).op = "undo"
     /\ gesture(1).cmd # 0
     /\ gesture(0).cmd = gesture(1).cmd
     /\ settled
     /\ redoStack # <<>>
     /\ Last(redoStack).kind = "Remove")
    => sceneOf(canvas, heap) = gesture(1).scene

\* where id stands in a recorded order
placeIn(order, id) == CHOOSE i \in DOMAIN order : order[i] = id /\ \A k \in 1..(i - 1) : order[k] # id

(* C28: when undo() or redo() runs the body of a Reorder, every object of the scene is
   in the scene afterwards exactly once and nothing else is; the objects whose id is in
   the recorded order come first, in that order, and the others follow in the order
   they had. *)
C28_ReorderKeepsEveryObject ==
    [][(hm.op = "idle" /\ hm'.op \in {"undo", "redo"} /\ hm'.cmd.kind = "Reorder") =>
        LET order  == IF hm'.op = "undo" THEN hm'.cmd.beforeOrder ELSE hm'.cmd.afterOrder
            was    == canvas.objects
            now    == canvas'.objects
            listed == {o \in Range(was) : Contains(order, heap'[o].qcId)}
        IN  /\ Range(now) = Range(was)
            /\ \A o \in Range(was) : count(now, o) = 1
            /\ Filter(now, Range(was) \ listed) = Filter(was, Range(was) \ listed)
            /\ \A i, j \in DOMAIN now :
                    (i < j /\ now[j] \in listed)
                        => /\ now[i] \in listed
                           /\ placeIn(order, heap'[now[i]].qcId) < placeIn(order, heap'[now[j]].qcId)
      ]_vars

(* C29: when the body of an undone or redone command has started several rehydrations
   and one of them fails, only that one is given up: the others stay in flight and can
   still add their objects, the stacks and the call are left as they were, and the call
   waits for none of them, so it always goes on to put its command on the other stack. *)
C29_FailedRehydrationSkipsOne ==
    /\ [](\A i \in DOMAIN pending : ~ pending[i].awaited)
    /\ [][(Len(pending') < Len(pending) /\ heap' = heap)
            => /\ \E i \in DOMAIN pending : pending' = dropAt(pending, i)
               /\ canvas' = canvas
               /\ hm' = hm
               /\ undoStack' = undoStack
               /\ redoStack' = redoStack]_vars
    /\ [][(hm.op = "undo" /\ hm'.op = "idle") => redoStack' = Append(redoStack, hm.cmd)]_vars
    /\ [][(hm.op = "redo" /\ hm'.op = "idle") => undoStack' = Append(undoStack, hm.cmd)]_vars
    /\ (hm.op # "idle") ~> (hm.op = "idle")

\* the Modify of two deleted rects was undone: one rehydration failed, the other put
\* its rect back, and the command is on redoStack
C29_OneFailedOneRestored ==
    /\ hm.op = "idle"
    /\ pending = <<>>
    /\ undoStack = <<>>
    /\ redoStack # <<>>
    /\ Len(Last(redoStack).before) = 2
    /\ Len(heap) = 3
    /\ canvas.objects = <<3>>
    /\ lastOp = "undo"

(* --------------------- the history's calls, one by one ------------------ *)
(* C39: with perform, undo and redo called one after the other, the two stacks
   together, the command a call is holding included, never hold more than maxDepth
   (250) commands, and the push redo() makes without looking at the cap never takes
   undoStack above it. *)
C39_StacksTogetherWithinDepth ==
    /\ [](Len(undoStack) + Len(redoStack) + (IF hm.op = "idle" THEN 0 ELSE 1) <= maxDepth)
    /\ [][(hm.op = "redo" /\ hm'.op = "idle")
            => (Len(undoStack') = Len(undoStack) + 1 /\ Len(undoStack') <= maxDepth)]_vars

\* a perform on the full stack dropped the bottom command; an undo and a redo later
\* undoStack is full again, by redo's push
C39_RedoFilledTheStack ==
    /\ evicted # {}
    /\ lastOp = "redo"
    /\ hm.op = "idle"
    /\ Len(undoStack) = maxDepth
    /\ redoStack = <<>>

(* C37: when command.undo() rejects inside undo(), or command.execute() inside redo(),
   and no other call came in between, the history is what it was before the call: the
   command is back on the stack it was taken from and the other stack is unchanged. *)
C37_RejectionLeavesHistory ==
    [][/\ (hm.op = "undo" /\ hm'.op = "idle" /\ lastOp' = "undo:rejected"
                /\ Last(log).op = "undo")
            => (undoStack' = Append(undoStack, hm.cmd) /\ redoStack' = redoStack)
       /\ (hm.op = "redo" /\ hm'.op = "idle" /\ lastOp' = "redo:rejected"
                /\ Last(log).op = "redo")
            => (redoStack' = Append(redoStack, hm.cmd) /\ undoStack' = undoStack)
      ]_vars

(* C38: when a perform() has completed while undo() was waiting for its command, then
   once the undo() has settled too redoStack is empty. *)
C38_PerformDuringUndoClearsRedo ==
    [][(hm.op = "undo" /\ hm'.op = "idle" /\ Last(log).op = "perform")
        => redoStack' = <<>>]_vars

(* ------------------- addToGallery calls that overlap ------------------- *)
\* '' : the checksum of a call whose stableHash threw
noChecksum == <<>>

\* addToGallery up to its first await: the kind, the payload and the checksum asked
\* for; orphan says that the object has no canvas, so that its thumbnail needs a clone
galleryCall(bags, orphan, hashed) ==
    [kind |-> galleryKind(bags), bags |-> bags, orphan |-> orphan,
     checksum |-> IF hashed THEN stableHash(normForHash(galleryKind(bags), bags)) ELSE noChecksum,
     stage |-> "hashing"]

\* the dedupe test: the place of the entry to bump; 0 for an empty checksum, for a
\* checksum that is not indexed and for one indexed to an entry that is gone
bumpIndex(g, checksum) ==
    IF checksum # noChecksum /\ indexHas(g, checksum)
    THEN findIndex(g.items, indexGet(g, checksum))
    ELSE 0

\* the entry at idx gets a new addedAt and goes to the front
bumpItem(g, idx) ==
    [g EXCEPT !.items = sliceCap(<<[g.items[idx] EXCEPT !.addedAt = g.calls]>> \o dropAt(g.items, idx))]

\* a new entry for call c is indexed under its checksum and put in front
newItem(g, c) ==
    [g EXCEPT
        !.made = @ + 1,
        !.index = IF c.checksum # noChecksum THEN indexSet(@, c.checksum, g.made + 1) ELSE @,
        !.items = sliceCap(<<[id |-> g.made + 1, kind |-> c.kind, payload |-> c.bags,
                              checksum |-> c.checksum, addedAt |-> g.calls]>> \o g.items)]

\* what a call that returns leaves behind: it is no longer in flight
returned(g, i) ==
    [g EXCEPT !.flight = dropAt(@, i),
              !.last = <<[kind |-> g.flight[i].kind, bags |-> g.flight[i].bags,
                          checksum |-> g.flight[i].checksum]>>]

\* addToGallery(obj) is called and awaits stableHash
BeginAdd(bags, orphan, hashed) ==
    /\ gallery.calls < MaxGalleryCalls
    /\ Len(gallery.flight) < MaxOverlap
    /\ gallery' = [gallery EXCEPT !.calls = @ + 1,
                                  !.flight = Append(@, galleryCall(bags, orphan, hashed))]
    /\ galleryFrame

\* stableHash settles for call i: a known entry is bumped and the call returns; else the
\* thumbnail is made, which awaits obj.clone() for an orphan object; else the new entry
\* is indexed and added
HashSettles(i) ==
    /\ i \in DOMAIN gallery.flight
    /\ gallery.flight[i].stage = "hashing"
    /\ LET c   == gallery.flight[i]
           idx == bumpIndex(gallery, c.checksum)
       IN  gallery' =
             IF idx # 0 THEN returned(bumpItem(gallery, idx), i)
             ELSE IF c.orphan THEN [gallery EXCEPT !.flight[i].stage = "cloning"]
             ELSE returned(newItem(gallery, c), i)
    /\ galleryFrame

\* obj.clone() settles for call i (a rejection is caught): the new entry is indexed and
\* added
CloneSettles(i) ==
    /\ i \in DOMAIN gallery.flight
    /\ gallery.flight[i].stage = "cloning"
    /\ gallery' = returned(newItem(gallery, gallery.flight[i]), i)
    /\ galleryFrame

\* the resources offered while calls overlap: the oldest one of a nearly full gallery
\* and two that are new to it
OverlapArgs == {<<rectBag(0, r)>> : r \in {1, galleryCap, galleryCap + 1}}

NextOverlap ==
    \/ \E bags \in OverlapArgs, orphan \in BOOLEAN, hashed \in BOOLEAN : BeginAdd(bags, orphan, hashed)
    \/ \E i \in 1..MaxOverlap : HashSettles(i)
    \/ \E i \in 1..MaxOverlap : CloneSettles(i)
    \/ \E id \in RemovableIds : removeFromGallery(id)
    \/ clearGallery

SpecOverlap == InitGallery /\ [][NextOverlap]_vars

(* C40: no two entries of the gallery have the same non-empty checksum; every entry
   with a non-empty checksum is the entry checksumIndex maps its checksum to; an
   addToGallery call that got a checksum returns with an entry of that checksum in
   front, whatever the index held. *)
C40_OneEntryPerChecksum ==
    /\ [](\A i, j \in DOMAIN gallery.items :
            (gallery.items[i].checksum # noChecksum
                /\ gallery.items[i].checksum = gallery.items[j].checksum) => i = j)
    /\ [](\A i \in DOMAIN gallery.items :
            gallery.items[i].checksum # noChecksum
                => /\ indexHas(gallery, gallery.items[i].checksum)
                   /\ indexGet(gallery, gallery.items[i].checksum) = gallery.items[i].id)
    /\ [][(Len(gallery'.flight) < Len(gallery.flight) /\ gallery'.last[1].checksum # noChecksum)
            => /\ gallery'.items # <<>>
               /\ gallery'.items[1].checksum = gallery'.last[1].checksum]_vars

(* ------------------ the clipboard read, item by item ------------------- *)
\* what item.getType(type) and the text of its blob turn out to be for one type of a
\* ClipboardItem: the type is not offered, getType rejects, the text holds no SVG, or
\* the representation can be pasted
ImageReps == {"absent", "rejects", "ok"}
TextReps == {"absent", "rejects", "no-svg", "ok"}

\* a ClipboardItem: one outcome per type the reader looks at
ClipboardItems == [svg : ImageReps, png : ImageReps, jpeg : ImageReps, html : TextReps, plain : TextReps]

\* the items that offer one type at most
SecondItems ==
    {it \in ClipboardItems :
        Cardinality({t \in {"svg", "png", "jpeg", "html", "plain"} : it[t] # "absent"}) <= 1}

\* items in one read
MaxItems == 2

\* what navigator.clipboard.read() resolves to: one item of any kind, or up to
\* MaxItems items of one type each
ItemLists ==
    {<<a>> : a \in ClipboardItems} \cup UNION {[1..n -> SecondItems] : n \in 0..MaxItems}

\* the order of the if statements in the body of the loop
typeOrder == <<"svg", "png", "jpeg", "html", "plain">>

mimeOf(t) ==
    CASE t = "svg" -> "image/svg+xml" [] t = "png" -> "image/png" [] t = "jpeg" -> "image/jpeg"
      [] t = "html" -> "text/html" [] OTHER -> "text/plain"

\* the state of one read: what was handed to addSVGStringFn / addImageBlobFn, the
\* statuses set, and how it ended ("scanning" until it has)
NoRead == [handed |-> <<>>, status |-> <<>>, end |-> "scanning"]

\* one if statement of the loop body: an image type whose getType rejects is skipped
\* (its own catch), a text or SVG type whose getType rejects throws to the outer catch
readType(r, k, item, t) ==
    IF r.end # "scanning" \/ item[t] \in {"absent", "no-svg"} THEN r
    ELSE IF item[t] = "rejects"
         THEN IF t \in {"png", "jpeg"} THEN r
              ELSE [r EXCEPT !.status = Append(@, "Clipboard read blocked"), !.end = "false"]
    ELSE [r EXCEPT
            !.handed = Append(@, [item |-> k, type |-> mimeOf(t),
                                  to |-> IF t \in {"png", "jpeg"} THEN "addImageBlobFn"
                                         ELSE "addSVGStringFn"]),
            !.status = IF t \in {"png", "jpeg"} THEN @ ELSE Append(@, "Pasted SVG"),
            !.end = "true"]

\* the body of the loop for item k
readItem(r, k, item) ==
    readType(readType(readType(readType(readType(r, k, item, "svg"), k, item, "png"),
                               k, item, "jpeg"), k, item, "html"), k, item, "plain")

RECURSIVE readItems(_, _, _)
\* for (const item of items) from item k on
readItems(r, k, items) ==
    IF k > Len(items) THEN r ELSE readItems(readItem(r, k, items[k]), k + 1, items)

\* tryReadFromSystemClipboard when navigator.clipboard.read resolves to items
readFromItems(items) ==
    LET r == readItems(NoRead, 1, items)
    IN  [r EXCEPT !.end = IF @ = "scanning" THEN "false" ELSE @]

\* one call of tryReadFromSystemClipboard
TryRead(items) ==
    /\ called("tryReadFromSystemClipboard", [items |-> items, read |-> readFromItems(items)])
    /\ UNCHANGED <<canvas, heap, pending, undoStack, redoStack, hm, nextCmdId, budget, lastOp, evicted>>
    /\ elsewhere

InitRead == InitScene(<<>>, <<>>, 0, 1)

NextRead == \E items \in ItemLists : TryRead(items)

SpecRead == InitRead /\ [][NextRead]_vars

\* the representations of items that can be pasted, as <<item, place in typeOrder>>
usableOf(items) ==
    {<<k, p>> \in (DOMAIN items) \X (1..5) : items[k][typeOrder[p]] = "ok"}

\* the usable representation that comes first: of the first item that has one, the
\* one whose type comes first in typeOrder
firstUsable(items) ==
    CHOOSE u \in usableOf(items) :
        \A v \in usableOf(items) : u[1] < v[1] \/ (u[1] = v[1] /\ u[2] <= v[2])

(* C31: a call of tryReadFromSystemClipboard on a clipboard with a usable
   representation hands exactly one representation to materialization, the first
   usable one in the order image/svg+xml, image/png, image/jpeg, text/html with an
   <svg> element, text/plain that is an SVG document, and returns true; on a clipboard
   without a usable representation it hands over nothing and returns false. *)
C31_FirstUsableIsPasted ==
    \A i \in DOMAIN log :
        log[i].op = "tryReadFromSystemClipboard" =>
            LET items == log[i].args.items
                read  == log[i].args.read
            IN  IF usableOf(items) = {}
                THEN read.end = "false" /\ read.handed = <<>>
                ELSE /\ read.end = "true"
                     /\ Len(read.handed) = 1
                     /\ read.handed[1].item = firstUsable(items)[1]
                     /\ read.handed[1].type = mimeOf(typeOrder[firstUsable(items)[2]])

(* ------------------- the panel's corner radius control ------------------ *)
\* objects of the scene the control is tried on, and commands it may record
MaxRadiusObjs == 3
MaxRadiusCmds == 2

\* active.type === 'i-text' && active.isEditing: the one active object is the text
\* being edited (canvas.editing is the IText whose isEditing is set, NoObj for none)
editingText(cv, hp) == cv.active # {} /\ cv.active = {cv.editing}

\* the capabilities setSelectionFromCanvas computes: fill if some member supports it,
\* cornerRadius if the members have one type and it is rect
capabilities(cv, hp) ==
    LET collect  == activeMembers(cv)
        allTypes == {hp[o].type : o \in cv.active}
    IN  IF cv.active = {} \/ editingText(cv, hp)
        THEN [fill |-> FALSE, cornerRadius |-> FALSE]
        ELSE [fill |-> \E o \in cv.active : supportsFill(hp[o]),
              cornerRadius |-> Cardinality(allTypes) = 1 /\ hp[collect[1]].type = "rect"]

\* the selection setSelectionFromCanvas puts in the store, with its capabilities
selectionWithCapabilities(cv, hp) ==
    [fill |-> IF editingText(cv, hp) THEN NoFill ELSE setSelectionFromCanvas(cv, hp).fill,
     editingText |-> editingText(cv, hp),
     capabilities |-> capabilities(cv, hp)]

\* the pointer makes S the active selection (a text being edited leaves editing; one
\* with an editing:exited handler of its own has left it before, in a step of its own)
\* and pushSelection refreshes the store
selectInPanel(S) ==
    /\ HandlerTurn
    /\ canvas.editing # NoObj => "before" \notin DOMAIN heap[canvas.editing]
    /\ S \subseteq Range(canvas.objects)
    /\ S # canvas.active
    /\ canvas' = [canvas EXCEPT !.active = S, !.editing = NoObj]
    /\ selection' = selectionWithCapabilities(canvas', heap)
    /\ noPerform
    /\ UNCHANGED <<heap, pending, hm>>
    /\ unobserved
    /\ UNCHANGED <<doc, copy, clip, gallery>>

\* a double click on the active text enters editing; no handler refreshes the store
enterEditing(o) ==
    /\ HandlerTurn
    /\ canvas.active = {o}
    /\ canvas.editing = NoObj
    /\ heap[o].type = "i-text"
    /\ canvas' = [canvas EXCEPT !.editing = o]
    /\ noPerform
    /\ UNCHANGED <<heap, pending, hm, selection>>
    /\ unobserved
    /\ UNCHANGED <<doc, copy, clip, gallery>>

\* Escape while a text without a handler of its own is edited: exitEditing(), and
\* text:editing:exited refreshes the store
exitEditing ==
    /\ HandlerTurn
    /\ canvas.editing # NoObj
    /\ canvas' = [canvas EXCEPT !.editing = NoObj]
    /\ selection' = selectionWithCapabilities(canvas', heap)
    /\ noPerform
    /\ UNCHANGED <<heap, pending, hm>>
    /\ unobserved
    /\ UNCHANGED <<doc, copy, clip, gallery>>

\* applyRectCornerRadiusToSelection(canvas, {rx: r, ry: r}) from its first line to its
\* last: the rects of the selection get their ids, those whose radius differs get r and
\* are recorded as one 'Corner Radius' command, and the store's selection is refreshed
applyRectCornerRadiusToSelection(r) ==
    /\ HandlerTurn
    /\ canvas.active # {}
    /\ LET rects  == rectsOf(heap, activeMembers(canvas))
           hp1    == ensureAll(heap, rects)
           before == radiusStates(hp1, rects, r, "before")
           after  == radiusStates(hp1, rects, r, "after")
       IN  /\ rects # <<>>
           /\ IF after # <<>> /\ propsChanged(before, after)
              THEN /\ budget > 0
                   /\ heap' = radiusAll(hp1, rects, r)
                   /\ perform(recordPropertyMutation(nextCmdId, before, after, "Corner Radius"))
              ELSE /\ heap' = IF after # <<>> THEN radiusAll(hp1, rects, r) ELSE hp1
                   /\ noPerform
    /\ selection' = selectionWithCapabilities(canvas, heap')
    /\ UNCHANGED <<canvas, pending, hm>>
    /\ unobserved
    /\ UNCHANGED <<doc, copy, clip, gallery>>

\* the objects of the loaded document: rects, ellipses and texts
RadiusObjects ==
    [qcId : {NoId}, type : {"rect", "ellipse", "i-text"}, left : {0}, fill : {"#111111"},
     rx : Radii, qcBefore : {<<>>}]

\* a loaded document of MaxRadiusObjs objects, none selected
InitRadius ==
    /\ heap \in {hp \in [1..MaxRadiusObjs -> RadiusObjects] :
                    \A o \in 1..MaxRadiusObjs : hp[o].type # "rect" => hp[o].rx = 0}
    /\ canvas = [objects |-> [i \in 1..MaxRadiusObjs |-> i], active |-> {}, editing |-> NoObj]
    /\ pending = <<>>
    /\ undoStack = <<>>
    /\ redoStack = <<>>
    /\ hm = Idle
    /\ nextCmdId = 1
    /\ budget = MaxRadiusCmds
    /\ lastOp = "none"
    /\ evicted = {}
    /\ log = <<>>
    /\ window = 0
    /\ doc = NewStore
    /\ copy = NoCopy
    /\ clip = NoClip
    /\ gallery = NoGallery
    /\ selection = [fill |-> NoFill, editingText |-> FALSE,
                    capabilities |-> [fill |-> FALSE, cornerRadius |-> FALSE]]

NextRadius ==
    \/ \E S \in SUBSET (1..MaxRadiusObjs) : selectInPanel(S)
    \/ \E o \in 1..MaxRadiusObjs : enterEditing(o)
    \/ exitEditing
    \/ \E r \in Radii : applyRectCornerRadiusToSelection(r)

SpecRadius == InitRadius /\ [][NextRadius]_vars

\* the active selection holds objects of more than one type
mixedKinds == Cardinality({heap[o].type : o \in canvas.active}) > 1

(* C32: the store's capabilities.cornerRadius is true exactly when something is
   selected, no text is being edited and every selected object is a rect; a call of
   applyRectCornerRadiusToSelection on a selection of mixed kinds changes the radius
   of no object and records no command. *)
C32_RadiusOnlyForRects ==
    /\ [](selection.capabilities.cornerRadius
            <=> (/\ canvas.active # {}
                 /\ ~editingText(canvas, heap)
                 /\ \A o \in canvas.active : heap[o].type = "rect"))
    /\ [][((\E r \in Radii : applyRectCornerRadiusToSelection(r)) /\ mixedKinds)
            => /\ \A o \in DOMAIN heap : heap'[o].rx = heap[o].rx
               /\ undoStack' = undoStack]_vars

(* ----------------------------- the text tool --------------------------- *)
\* texts put on the canvas, commands recorded and characters typed in one run
MaxTextObjs == 2
MaxTextCmds == 3
MaxTextLen == 2

\* what a text may hold: strings of blanks and letters
Texts == UNION {[1..n -> {" ", "a"}] : n \in 0..MaxTextLen}

RECURSIVE trimStart(_)
trimStart(t) == IF t # <<>> /\ Head(t) = " " THEN trimStart(Tail(t)) ELSE t

RECURSIVE trimEnd(_)
trimEnd(t) == IF t # <<>> /\ Last(t) = " " THEN trimEnd(Front(t)) ELSE t

\* String.prototype.trim
trim(t) == trimEnd(trimStart(t))

\* toObject() of an IText: the bag with its text
textObject(h) == [type |-> h.type, left |-> h.left, fill |-> h.fill, rx |-> h.rx, text |-> h.text]

\* snapshotObjects(textObj), its id being attached
textSnapshot(h) == <<[qcId |-> h.qcId, json |-> textObject(h)]>>

\* new fabric.IText('', {...}) at the pointer with its id attached; before is the
\* snapshot its editing:exited handler closes over
newText(o, l) ==
    LET h == [qcId |-> o, type |-> "i-text", left |-> l, fill |-> "#111827", rx |-> 0,
              qcBefore |-> <<>>, text |-> <<>>]
    IN  [qcId |-> h.qcId, type |-> h.type, left |-> h.left, fill |-> h.fill, rx |-> h.rx,
         qcBefore |-> h.qcBefore, text |-> h.text, before |-> textSnapshot(h)]

\* mouse:down with the text tool: an empty text is added, made active and put into
\* editing, the store's selection is refreshed and 'Add text' is recorded
textToolDown(l) ==
    /\ HandlerTurn
    /\ budget > 0
    /\ Len(heap) < MaxTextObjs
    /\ canvas.editing = NoObj
    /\ LET o == Len(heap) + 1
       IN  /\ heap' = Append(heap, newText(o, l))
           /\ canvas' = [canvas EXCEPT !.objects = Append(@, o), !.active = {o}, !.editing = o]
           /\ perform(recordAddObjects(nextCmdId, heap', <<o>>, "Add text"))
    /\ selection' = selectionWithCapabilities(canvas', heap')
    /\ UNCHANGED <<pending, hm>>
    /\ unobserved
    /\ UNCHANGED <<doc, copy, clip, gallery>>

\* the keyboard changes the text that is being edited
typeText(t) ==
    /\ HandlerTurn
    /\ canvas.editing # NoObj
    /\ heap[canvas.editing].text # t
    /\ heap' = [heap EXCEPT ![canvas.editing].text = t]
    /\ noPerform
    /\ UNCHANGED <<canvas, pending, hm, selection>>
    /\ unobserved
    /\ UNCHANGED <<doc, copy, clip, gallery>>

\* the text leaves editing (Escape): its editing:exited handler records 'Remove empty
\* text' for a text that is empty or blank and 'Edit text' otherwise, then
\* text:editing:exited refreshes the store's selection
textEditingExited ==
    /\ HandlerTurn
    /\ budget > 0
    /\ canvas.editing # NoObj
    /\ LET o == canvas.editing
       IN  IF trim(heap[o].text) = <<>>
           THEN perform(recordRemoveObjects(nextCmdId, heap, <<o>>, "Remove empty text"))
           ELSE perform(recordModify(nextCmdId, heap[o].before, textSnapshot(heap[o]), "Edit text"))
    /\ canvas' = [canvas EXCEPT !.editing = NoObj]
    /\ selection' = selectionWithCapabilities(canvas', heap)
    /\ UNCHANGED <<heap, pending, hm>>
    /\ unobserved
    /\ UNCHANGED <<doc, copy, clip, gallery>>

\* an empty document and the text tool
InitText ==
    /\ heap = <<>>
    /\ canvas = [objects |-> <<>>, active |-> {}, editing |-> NoObj]
    /\ pending = <<>>
    /\ undoStack = <<>>
    /\ redoStack = <<>>
    /\ hm = Idle
    /\ nextCmdId = 1
    /\ budget = MaxTextCmds
    /\ lastOp = "none"
    /\ evicted = {}
    /\ log = <<>>
    /\ window = 0
    /\ doc = NewStore
    /\ copy = NoCopy
    /\ clip = NoClip
    /\ gallery = NoGallery
    /\ selection = [fill |-> NoFill, editingText |-> FALSE,
                    capabilities |-> [fill |-> FALSE, cornerRadius |-> FALSE]]

NextText ==
    \/ \E l \in Lefts : textToolDown(l)
    \/ \E t \in Texts : typeText(t)
    \/ textEditingExited
    \/ \E o \in 1..MaxTextObjs : enterEditing(o)
    \/ \E S \in SUBSET (1..MaxTextObjs) : selectInPanel(S)

SpecText == InitText /\ [][NextText]_vars

(* C36: when a text created with the text tool leaves editing with a text that is
   empty or blank, it is no longer in the scene, and the command recorded by that step
   is the 'Remove empty text' removal of that object. *)
C36_EmptyTextLeavesTheScene ==
    [][(/\ canvas.editing # NoObj
        /\ canvas'.editing = NoObj
        /\ undoStack' # undoStack
        /\ trim(heap[canvas.editing].text) = <<>>)
        => /\ ~Contains(canvas'.objects, canvas.editing)
           /\ Last(undoStack').label = "Remove empty text"
           /\ Last(undoStack').arr = <<canvas.editing>>]_vars

(* ------------------------ addImageBlob, step by step -------------------- *)
\* addImageBlob calls in one run
MaxImageCalls == 2

\* what the FileReader and fabric.Image.fromURL will do for one blob
BlobEnvs == [reader : {"ok", "error"}, fromURL : {"image", "null", "rejects"}]

\* setStatus(msg) of call k, as the observer of the statuses keeps it
statusOf(k, msg) == [call |-> k, msg |-> msg]

\* a catch that lets the error go: the call rejects and reports nothing
rethrown(c, k) == [c EXCEPT !.calls[k].pc = "rejected"]

\* catch (err) { console.warn(...); setStatus("Image paste failed"); }: call k returns
imagePasteFailed(c, k) ==
    [c EXCEPT !.calls[k].pc = "resolved",
              !.status = Append(@, statusOf(k, "Image paste failed"))]

\* addImageBlob(canvas, blob, target, setStatus) up to its first await
addImageBlobCalled(env, target) ==
    /\ Len(clip.calls) < MaxImageCalls
    /\ LET k == Len(clip.calls) + 1
       IN  clip' = [clip EXCEPT
                !.calls = Append(@, [pc |-> "blobToDataURL", env |-> env, target |-> target,
                                     img |-> NoObj]),
                !.status = Append(@, statusOf(k, "Pasting image..."))]
    /\ UNCHANGED <<canvas, heap, pending, undoStack, redoStack, hm, nextCmdId, budget, lastOp,
                   evicted, log, window, doc, copy, gallery, selection>>

\* the FileReader of call k fires onload or onerror
readerSettles(k) ==
    /\ k \in DOMAIN clip.calls
    /\ clip.calls[k].pc = "blobToDataURL"
    /\ clip' = IF clip.calls[k].env.reader = "ok"
               THEN [clip EXCEPT !.calls[k].pc = "fromURL"]
               ELSE imagePasteFailed(clip, k)
    /\ UNCHANGED <<canvas, heap, pending, undoStack, redoStack, hm, nextCmdId, budget, lastOp,
                   evicted, log, window, doc, copy, gallery, selection>>

\* fabric.Image.fromURL of call k settles: an image is centred at the target, added,
\* made active and reported; null or a rejection goes to the catch
fromURLSettles(k) ==
    /\ k \in DOMAIN clip.calls
    /\ clip.calls[k].pc = "fromURL"
    /\ IF clip.calls[k].env.fromURL = "image"
       THEN LET o == Len(heap) + 1
            IN  /\ heap' = Append(heap, [qcId |-> NoId, type |-> "image",
                                         left |-> clip.calls[k].target, fill |-> "rgb(0,0,0)",
                                         rx |-> 0, qcBefore |-> <<>>])
                /\ canvas' = [canvas EXCEPT !.objects = Append(@, o), !.active = {o}]
                /\ clip' = [clip EXCEPT !.calls[k].pc = "resolved", !.calls[k].img = o,
                                        !.status = Append(@, statusOf(k, "Pasted image"))]
       ELSE /\ clip' = imagePasteFailed(clip, k)
            /\ UNCHANGED <<canvas, heap>>
    /\ UNCHANGED <<pending, undoStack, redoStack, hm, nextCmdId, budget, lastOp,
                   evicted, log, window, doc, copy, gallery, selection>>

\* an empty document, no call made yet
InitImage ==
    /\ heap = <<>>
    /\ canvas = [objects |-> <<>>, active |-> {}]
    /\ pending = <<>>
    /\ undoStack = <<>>
    /\ redoStack = <<>>
    /\ hm = Idle
    /\ nextCmdId = 1
    /\ budget = 0
    /\ lastOp = "none"
    /\ evicted = {}
    /\ log = <<>>
    /\ window = 0
    /\ doc = NewStore
    /\ copy = NoCopy
    /\ clip = [calls |-> <<>>, status |-> <<>>]
    /\ gallery = NoGallery
    /\ selection = NoSelection

NextImage ==
    \/ \E env \in BlobEnvs, target \in Lefts : addImageBlobCalled(env, target)
    \/ \E k \in 1..MaxImageCalls : readerSettles(k)
    \/ \E k \in 1..MaxImageCalls : fromURLSettles(k)

SpecImage == InitImage /\ [][NextImage]_vars

\* the FileReader fires one of its events and fromURL settles
FairImage ==
    /\ SpecImage
    /\ \A k \in 1..MaxImageCalls : WF_vars(readerSettles(k)) /\ WF_vars(fromURLSettles(k))

\* the statuses call k has reported, in order
statusesOf(k) == SelectSeq(clip.status, LAMBDA s : s.call = k)

TerminalStatuses == {"Pasted image", "Image paste failed"}

(* C35: every addImageBlob call reports 'Pasting image...' first and then exactly one
   of 'Pasted image' and 'Image paste failed', with which it returns; it never
   rejects; an image is on the canvas and active because of the call only when it
   reported 'Pasted image'. *)
C35_PastingThenOneOutcome ==
    /\ [](\A k \in DOMAIN clip.calls :
            /\ clip.calls[k].pc # "rejected"
            /\ Len(statusesOf(k)) \in {1, 2}
            /\ statusesOf(k)[1].msg = "Pasting image..."
            /\ Len(statusesOf(k)) = 2 <=> clip.calls[k].pc = "resolved"
            /\ Len(statusesOf(k)) = 2 => statusesOf(k)[2].msg \in TerminalStatuses
            /\ clip.calls[k].img # NoObj
                <=> (Len(statusesOf(k)) = 2 /\ statusesOf(k)[2].msg = "Pasted image"))
    /\ [][canvas' # canvas
            => \E k \in DOMAIN clip.calls :
                /\ clip.calls[k].pc # "resolved"
                /\ clip'.calls[k].pc = "resolved"
                /\ Last(clip'.status) = statusOf(k, "Pasted image")
                /\ canvas'.objects = Append(canvas.objects, clip'.calls[k].img)
                /\ canvas'.active = {clip'.calls[k].img}]_vars
    /\ \A k \in 1..MaxImageCalls :
            (k \in DOMAIN clip.calls) ~> (k \in DOMAIN clip.calls /\ clip.calls[k].pc = "resolved")

\* two calls overlapped: the first failed at fromURL after the second had pasted its image
C35_OneFailedOnePasted ==
    /\ Len(clip.calls) = 2
    /\ Len(clip.status) = 4
    /\ clip.status[3] = statusOf(2, "Pasted image")
    /\ clip.status[4] = statusOf(1, "Image paste failed")
    /\ clip.calls[1].env.reader = "ok"
    /\ canvas.objects = <<clip.calls[2].img>>

(* --------------------------- saving the document ------------------------ *)
\* shapes added, and saveDocument calls under way together, in the run that saves
MaxSaveObjs == 2
MaxSaves == 2

\* no saveDocument call in this place
NoSave == [pc |-> "none", data |-> <<>>, mark |-> 0]

\* the store and the database of one open document, the saveDocument calls under way,
\* the autosave effect's timer and its closure variable last; marks counts the
\* markDirty calls and saved is the last of them a persisted snapshot was taken after
SaveStore ==
    [documentId |-> 1, documents |-> (1 :> <<>>), documentDirty |-> FALSE,
     saves |-> [k \in 1..MaxSaves |-> NoSave], timer |-> FALSE, last |-> FALSE,
     marks |-> 0, saved |-> 0]

\* the autosave effect's subscriber, run after every set() of the store
subscriber(d) ==
    [d EXCEPT !.timer = IF d.documentDirty /\ ~d.last THEN TRUE ELSE @,
              !.last = d.documentDirty]

\* markDirty: () => set({ documentDirty: true })
markDirty(d) == subscriber([d EXCEPT !.documentDirty = TRUE, !.marks = @ + 1])

\* a shape is created: canvas.add fires object:added, whose handler marks the document
\* dirty, and the creation is recorded
createAndMark(kind, l) ==
    /\ HandlerTurn
    /\ budget > 0
    /\ Len(heap) < MaxSaveObjs
    /\ LET o   == Len(heap) + 1
           hp1 == ensureObjectId(Append(heap, newShape(kind, l)), o)
       IN  /\ heap' = hp1
           /\ canvas' = [objects |-> Append(canvas.objects, o), active |-> {o}]
           /\ perform(recordAddObjects(nextCmdId, hp1, <<o>>, "Add shape"))
    /\ doc' = markDirty(doc)
    /\ UNCHANGED <<pending, hm, copy, clip, gallery, selection>>
    /\ unobserved

saveFrame ==
    UNCHANGED <<canvas, heap, pending, undoStack, redoStack, hm, nextCmdId, budget, lastOp,
                evicted, log, window, copy, clip, gallery, selection>>

\* saveDocument(canvas, opts) up to its first await: it returns at once when the
\* document is not dirty and the call is not forced
saveDocumentCalled(d, k, force) ==
    IF ~force /\ ~d.documentDirty THEN d
    ELSE [d EXCEPT !.saves[k] = [pc |-> "get", data |-> <<>>, mark |-> 0]]

\* the autosave timer fires a second after it was set: saveDocument(canvas)
timerFires(k) ==
    /\ doc.timer
    /\ doc.saves[k].pc = "none"
    /\ \A j \in 1..(k - 1) : doc.saves[j].pc # "none"
    /\ doc' = saveDocumentCalled([doc EXCEPT !.timer = FALSE], k, FALSE)
    /\ saveFrame

\* Save in the actions panel: saveDocument(canvas, { force: true })
saveNow(k) ==
    /\ doc.saves[k].pc = "none"
    /\ \A j \in 1..(k - 1) : doc.saves[j].pc # "none"
    /\ doc' = saveDocumentCalled(doc, k, TRUE)
    /\ saveFrame

\* the import and db.documents.get settle for call k: the record exists, the canvas is
\* serialized and the call awaits computeStableHash
recordRead(k) ==
    /\ doc.saves[k].pc = "get"
    /\ doc' = [doc EXCEPT !.saves[k] = [pc |-> "hash", data |-> toJSON(canvas, heap),
                                        mark |-> doc.marks]]
    /\ saveFrame

\* computeStableHash settles for call k: the preview is made and the call awaits put
hashComputed(k) ==
    /\ doc.saves[k].pc = "hash"
    /\ doc' = [doc EXCEPT !.saves[k].pc = "put"]
    /\ saveFrame

\* db.documents.put settles for call k: the record holds the call's snapshot and the
\* store is set to documentDirty: false
recordPut(k) ==
    /\ doc.saves[k].pc = "put"
    /\ doc' = subscriber([doc EXCEPT
                !.documents[doc.documentId] = doc.saves[k].data,
                !.saved = doc.saves[k].mark,
                !.documentDirty = FALSE,
                !.saves[k] = NoSave])
    /\ saveFrame

\* an open, empty, saved document
InitSave ==
    /\ heap = <<>>
    /\ canvas = [objects |-> <<>>, active |-> {}]
    /\ pending = <<>>
    /\ undoStack = <<>>
    /\ redoStack = <<>>
    /\ hm = Idle
    /\ nextCmdId = 1
    /\ budget = MaxSaveObjs
    /\ lastOp = "none"
    /\ evicted = {}
    /\ log = <<>>
    /\ window = 0
    /\ doc = SaveStore
    /\ copy = NoCopy
    /\ clip = NoClip
    /\ gallery = NoGallery
    /\ selection = NoSelection

NextSave ==
    \/ \E kind \in Kinds, l \in Lefts : createAndMark(kind, l)
    \/ \E k \in 1..MaxSaves : timerFires(k)
    \/ \E k \in 1..MaxSaves : saveNow(k)
    \/ \E k \in 1..MaxSaves : recordRead(k)
    \/ \E k \in 1..MaxSaves : hashComputed(k)
    \/ \E k \in 1..MaxSaves : recordPut(k)

SpecSave == InitSave /\ [][NextSave]_vars

\* timers fire and the database answers
FairSave ==
    /\ SpecSave
    /\ \A k \in 1..MaxSaves :
        /\ WF_vars(timerFires(k))
        /\ WF_vars(recordRead(k))
        /\ WF_vars(hashComputed(k))
        /\ WF_vars(recordPut(k))

\* no saveDocument call is under way
noSaveInProgress == \A k \in 1..MaxSaves : doc.saves[k].pc = "none"

(* C33: whenever documentDirty is false and no saveDocument call is under way, the
   persisted record of the open document is the scene as it is now: no mutation is
   left unsaved with documentDirty false. *)
C33_CleanMeansPersisted ==
    (~doc.documentDirty /\ noSaveInProgress)
        => doc.documents[doc.documentId] = toJSON(canvas, heap)

(* C34: with timers that fire and a database that answers, every markDirty is followed
   by a saveDocument call that persists a snapshot taken after that mark and sets
   documentDirty to false. *)
C34_EveryMarkIsSaved ==
    \A m \in 1..MaxSaveObjs :
        (doc.marks >= m) ~> (doc.saved >= m /\ ~doc.documentDirty)

=============================================================================
